---- MODULE Spec2Model ----
(***************************************************************************)
(* A model of the content transformation pipeline of telar (scripts/telar): *)
(* the metadata merge (iiif_metadata.py), the schema normalizer             *)
(* (csv_utils.py, core.py), the cross-reference linker (glossary.py) and    *)
(* the widget interpreter (widgets.py).                                     *)
(*                                                                          *)
(* Text is modelled as a sequence of one-character strings, so that         *)
(* str.strip(), str.startswith() and the regular expressions of the code    *)
(* are computed character by character.                                     *)
(***************************************************************************)
EXTENDS Integers, Sequences, FiniteSets, TLC

VARIABLES
    \* apply_metadata_fallback
    row_dict,        \* the record being merged into (a Python dict: a function on its keys)
    iiif_metadata,   \* the extracted field set
    row_before,      \* history: row_dict as it was before the latest call
    merge_calls,     \* history: how many times apply_metadata_fallback has run
    \* is_header_row
    row_values,      \* the argument: the cell values of one row
    header_checked,  \* whether is_header_row has returned
    header_result,   \* what it returned
    \* normalize_column_names
    norm_columns,    \* df.columns
    norm_before,     \* history: df.columns before the latest call
    norm_log,        \* the "[INFO] Normalized column" lines printed so far
    norm_calls,      \* history: how many times normalize_column_names has run
    \* csv_to_json
    df_in,           \* the table as pd.read_csv returned it
    df_out,          \* the table handed to process_func
    csv_pc,          \* "read" before csv_to_json has run, "done" after
    \* process_glossary_links
    gl_text,         \* the text given to the first call
    gl_terms,        \* glossary_terms
    gl_out,          \* the text as it is now (the latest return value)
    gl_prev,         \* history: the text given to the latest call
    gl_items,        \* history: what replace_glossary_link decided in the latest call
    gl_warnings,     \* warnings_list
    gl_warned_before, \* history: len(warnings_list) before the latest call
    gl_pc,           \* "input", "linked" after one call, "relinked" after two
    \* parse_tabs_widget, parse_accordion_widget
    wd_content,      \* content: the text between the ':::' fences
    wd_result,       \* the dict returned by the parser
    wd_warnings,     \* warnings_list
    wd_warnings_before, \* history: warnings_list as it was before the call
    wd_pc,           \* "input" before a parser has run, then "tabs" or "accordion"
    \* parse_carousel_widget
    cr_content,      \* content: the text between the ':::' fences
    cr_images,       \* the image store: for a path, whether the file is found and its size
    cr_result,       \* the dict returned by the parser
    cr_warnings,     \* warnings_list
    cr_warnings_before, \* history: warnings_list as it was before the call
    cr_pc,           \* "input" before the parser has run, then "parsed"
    \* process_widgets
    pw_text,         \* text: the raw markdown text
    pw_templates,    \* _includes/widgets: what the template of each widget type does
    pw_out,          \* the text returned
    pw_items,        \* history: the blocks replaced, with their replacements
    pw_warnings,     \* warnings_list
    pw_warnings_before, \* history: warnings_list as it was before the call
    pw_counter,      \* _widget_counter
    pw_ids,          \* history: the numbers N of the widget-N handed out so far, in order
    pw_calls,        \* history: how many times process_widgets has run
    pw_pc,           \* "input", then "returned", or "raised" when an exception escaped
    \* extract_language_map_value
    lm_map,  \* language_map
    lm_site,  \* site_language
    lm_result,  \* the string returned
    lm_pc, \* "input", then "extracted"
    \* iiif_metadata.py: is_legal_boilerplate and extract_credit
    cd_text,  \* the text given to is_legal_boilerplate
    cd_manifest,  \* the manifest given to extract_credit
    cd_site,  \* site_language
    cd_boilerplate,  \* what is_legal_boilerplate returned
    cd_primary,  \* credit after clean_metadata_value
    cd_credit,  \* what extract_credit returned
    cd_pc, \* input, classified or extracted
    \* processors/objects.py: process_objects, and csv_to_json around it
    ob_csv,  \* the rows of objects.csv
    ob_config,  \* show_sample_on_homepage and featured_count of _config.yml
    ob_file,  \* _data/objects.json
    ob_inputs,  \* what the fetches of the last build brought, row by row
    ob_raised,  \* process_objects ended with an exception
    ob_df,  \* the dataframe process_objects returned
    ob_warnings,  \* the list warnings of process_objects
    ob_builds,  \* the builds that have ended
    ob_processed,  \* the rows process_objects has gone through, all builds together
    ob_pc, \* idle, or processed: process_objects has returned
    \* processors/objects.py: the local image loop for one object
    im_object_id,  \* object_id of the row
    im_dir,  \* components/images: whether it exists, its file names, whether the file system tells letter case apart
    im_similar,  \* what _find_similar_image_filenames returned
    im_warning,  \* object_warning of the row after the loop
    im_pc, \* input, then validated
    \* process_story (processors/stories.py)
    st_rows,  \* the rows of the story table read
    st_christmas_tree,  \* the flag christmas_tree
    st_objects,  \* the list of _data/objects.json
    st_images,  \* the object ids with an image in components/images
    st_texts,  \* the files of components/texts/stories
    st_terms,  \* the glossary terms
    st_df,  \* the table returned
    st_viewer_warnings,  \* df.attrs['viewer_warnings']
    st_pc, \* input, processed
    \* merge_demo_content (demo.py)
    dm_user,  \* the directory _data once the tables of the author are converted
    dm_bundle,  \* the demo bundle
    dm_data,  \* the directory _data
    dm_pc  \* converted, merged

mergeVars == <<row_dict, iiif_metadata, row_before, merge_calls>>
headerVars == <<row_values, header_checked, header_result>>
normVars == <<norm_columns, norm_before, norm_log, norm_calls>>
csvVars == <<df_in, df_out, csv_pc>>

glossaryVars ==
    <<gl_text, gl_terms, gl_out, gl_prev, gl_items, gl_warnings, gl_warned_before, gl_pc>>

widgetVars == <<wd_content, wd_result, wd_warnings, wd_warnings_before, wd_pc>>

carouselVars ==
    <<cr_content, cr_images, cr_result, cr_warnings, cr_warnings_before, cr_pc>>

processWidgetsVars ==
    <<pw_text, pw_templates, pw_out, pw_items, pw_warnings, pw_warnings_before,
      pw_counter, pw_ids, pw_calls, pw_pc>>

languageMapVars ==
    <<lm_map, lm_site, lm_result, lm_pc>>

creditVars ==
    <<cd_text, cd_manifest, cd_site, cd_boilerplate, cd_primary, cd_credit, cd_pc>>

objectsVars ==
    <<ob_csv, ob_config, ob_file, ob_inputs, ob_raised, ob_df, ob_warnings, ob_builds,
      ob_processed, ob_pc>>

imagesVars ==
    <<im_object_id, im_dir, im_similar, im_warning, im_pc>>

storyVars ==
    <<st_rows, st_christmas_tree, st_objects, st_images, st_texts, st_terms, st_df, st_viewer_warnings, st_pc>>

demoVars ==
    <<dm_user, dm_bundle, dm_data, dm_pc>>

\* every variable of the model
vars ==
    <<mergeVars, headerVars, normVars, csvVars, glossaryVars, widgetVars, carouselVars,
      processWidgetsVars, languageMapVars, creditVars, objectsVars, imagesVars,
      storyVars, demoVars>>

\* for each operation, the variables of the other operations, which it leaves alone
exceptMergeVars ==
    <<headerVars, normVars, csvVars, glossaryVars, widgetVars, carouselVars,
      processWidgetsVars, languageMapVars, creditVars, objectsVars, imagesVars,
      storyVars, demoVars>>
exceptHeaderVars ==
    <<mergeVars, normVars, csvVars, glossaryVars, widgetVars, carouselVars,
      processWidgetsVars, languageMapVars, creditVars, objectsVars, imagesVars,
      storyVars, demoVars>>
exceptNormVars ==
    <<mergeVars, headerVars, csvVars, glossaryVars, widgetVars, carouselVars,
      processWidgetsVars, languageMapVars, creditVars, objectsVars, imagesVars,
      storyVars, demoVars>>
exceptCsvVars ==
    <<mergeVars, headerVars, normVars, glossaryVars, widgetVars, carouselVars,
      processWidgetsVars, languageMapVars, creditVars, objectsVars, imagesVars,
      storyVars, demoVars>>
exceptGlossaryVars ==
    <<mergeVars, headerVars, normVars, csvVars, widgetVars, carouselVars,
      processWidgetsVars, languageMapVars, creditVars, objectsVars, imagesVars,
      storyVars, demoVars>>
exceptWidgetVars ==
    <<mergeVars, headerVars, normVars, csvVars, glossaryVars, carouselVars,
      processWidgetsVars, languageMapVars, creditVars, objectsVars, imagesVars,
      storyVars, demoVars>>
exceptCarouselVars ==
    <<mergeVars, headerVars, normVars, csvVars, glossaryVars, widgetVars,
      processWidgetsVars, languageMapVars, creditVars, objectsVars, imagesVars,
      storyVars, demoVars>>
exceptProcessWidgetsVars ==
    <<mergeVars, headerVars, normVars, csvVars, glossaryVars, widgetVars, carouselVars,
      languageMapVars, creditVars, objectsVars, imagesVars, storyVars, demoVars>>
exceptLanguageMapVars ==
    <<mergeVars, headerVars, normVars, csvVars, glossaryVars, widgetVars, carouselVars,
      processWidgetsVars, creditVars, objectsVars, imagesVars, storyVars, demoVars>>
exceptCreditVars ==
    <<mergeVars, headerVars, normVars, csvVars, glossaryVars, widgetVars, carouselVars,
      processWidgetsVars, languageMapVars, objectsVars, imagesVars, storyVars, demoVars>>
exceptObjectsVars ==
    <<mergeVars, headerVars, normVars, csvVars, glossaryVars, widgetVars, carouselVars,
      processWidgetsVars, languageMapVars, creditVars, imagesVars, storyVars, demoVars>>
exceptImagesVars ==
    <<mergeVars, headerVars, normVars, csvVars, glossaryVars, widgetVars, carouselVars,
      processWidgetsVars, languageMapVars, creditVars, objectsVars, storyVars, demoVars>>
exceptStoryVars ==
    <<mergeVars, headerVars, normVars, csvVars, glossaryVars, widgetVars, carouselVars,
      processWidgetsVars, languageMapVars, creditVars, objectsVars, imagesVars, demoVars>>
exceptDemoVars ==
    <<mergeVars, headerVars, normVars, csvVars, glossaryVars, widgetVars, carouselVars,
      processWidgetsVars, languageMapVars, creditVars, objectsVars, imagesVars,
      storyVars>>

----------------------------------------------------------------------------
(* Bounds of the model *)

\* cells of the row given to is_header_row
MaxRowLen == 5
\* columns of the table given to normalize_column_names
MaxHeaderLen == 2
\* how many times normalize_column_names is re-run on the same table
MaxNormCalls == 2
\* data rows of the table given to csv_to_json
MaxRows == 3
\* pieces the text given to process_glossary_links is written from
MaxSegments == 4

\* how many mergeable fields of one record carry a non-default value
MaxVaried == 1
\* how many times the merge is re-run on the same record
MaxMergeCalls == 2

----------------------------------------------------------------------------
(* Python string helpers *)

\* str.isspace() of one character
IsSpace(c) == c = " " \/ c = "\n"

RECURSIVE LStrip(_)
\* str.lstrip()
LStrip(s) == IF s # <<>> /\ IsSpace(Head(s)) THEN LStrip(Tail(s)) ELSE s

RECURSIVE RStrip(_)
\* str.rstrip()
RStrip(s) ==
    IF s # <<>> /\ IsSpace(s[Len(s)]) THEN RStrip(SubSeq(s, 1, Len(s) - 1)) ELSE s

\* str.strip()
Strip(s) == RStrip(LStrip(s))

\* dict.get(key, default)
DictGet(d, key, default) == IF key \in DOMAIN d THEN d[key] ELSE default

\* d[key] = value on a dict
DictSet(d, key, value) == [k \in DOMAIN d \cup {key} |-> IF k = key THEN value ELSE d[k]]

----------------------------------------------------------------------------
(* iiif_metadata.py: apply_metadata_fallback *)

\* the list `fields` of apply_metadata_fallback
fields ==
    <<"title", "description", "creator", "period", "source", "credit",
      "year", "object_type", "subjects">>

MergeableFields == {fields[i] : i \in 1..Len(fields)}

\* a slip that drops the `continue` and appends the extracted value
MergeFieldAppending(row, iiif, field) ==
    LET csv_value == Strip(DictGet(row, field, <<>>))
        iiif_value == Strip(DictGet(iiif, field, <<>>))
    IN  IF iiif_value # <<>> THEN DictSet(row, field, csv_value \o iiif_value) ELSE row

\* a slip that tests the extracted value first, so the extracted value wins
MergeFieldExtractedWins(row, iiif, field) ==
    LET iiif_value == Strip(DictGet(iiif, field, <<>>))
    IN  IF iiif_value # <<>> THEN DictSet(row, field, iiif_value) ELSE row

\* one iteration of the loop over `fields`
MergeField(row, iiif, field) ==
    LET csv_value == Strip(DictGet(row, field, <<>>))
        iiif_value == Strip(DictGet(iiif, field, <<>>))
    IN  IF csv_value # <<>> THEN row
        ELSE IF iiif_value # <<>> THEN DictSet(row, field, iiif_value)
        ELSE row

RECURSIVE MergeFrom(_, _, _)
\* the loop `for field in fields`, from index i on
MergeFrom(row, iiif, i) ==
    IF i > Len(fields) THEN row
    ELSE MergeFrom(MergeField(row, iiif, fields[i]), iiif, i + 1)

\* apply_metadata_fallback(row_dict, iiif_metadata): the row after the call
apply_metadata_fallback(row, iiif) == MergeFrom(row, iiif, 1)

\* values an author can leave in a cell of the objects table (objects.py fills
\* missing cells with '' before the merge; cells are not trimmed)
RowValues == {<<>>, <<" ">>, <<"a">>, <<" ", "a", " ">>}

\* values the extractors produce: clean_metadata_value and strip_html_tags
\* return trimmed text; the whitespace-only value is the one of
\* test_handles_whitespace_iiif_values
ExtractedValues == {<<>>, <<" ">>, <<"b">>}

\* keys that are never merged: the record's identifier, and the 'location'
\* key extract_manifest_metadata still produces
RowOnlyKey == "object_id"
ExtractedOnlyKey == "location"

IdleMerge ==
    /\ row_dict = <<>>
    /\ iiif_metadata = <<>>
    /\ row_before = <<>>
    /\ merge_calls = 0

InitMerge ==
    /\ \E V \in SUBSET MergeableFields :
         /\ Cardinality(V) <= MaxVaried
         /\ \E Sr \in SUBSET V, Se \in SUBSET V :
              /\ \E r \in [Sr -> RowValues] :
                   row_dict = [k \in Sr \cup {RowOnlyKey} |->
                                  IF k = RowOnlyKey THEN <<"a">> ELSE r[k]]
              /\ \E withLocation \in BOOLEAN, e \in [Se -> ExtractedValues] :
                   iiif_metadata =
                       [k \in Se \cup (IF withLocation THEN {ExtractedOnlyKey} ELSE {}) |->
                           IF k = ExtractedOnlyKey THEN <<"b">> ELSE e[k]]
    /\ row_before = row_dict
    /\ merge_calls = 0

\* one call apply_metadata_fallback(row_dict, iiif_metadata), which modifies
\* row_dict in place
ApplyMetadataFallback ==
    /\ merge_calls < MaxMergeCalls
    /\ row_before' = row_dict
    /\ row_dict' = apply_metadata_fallback(row_dict, iiif_metadata)
    /\ merge_calls' = merge_calls + 1
    /\ UNCHANGED <<iiif_metadata, exceptMergeVars>>

----------------------------------------------------------------------------
(* C1, C2: the override hierarchy *)

IsBlank(d, f) == Strip(DictGet(d, f, <<>>)) = <<>>

C2_MergeIdempotent == merge_calls >= 2 => row_dict = row_before

\* the second run happened on a record the first run had filled from the
\* extracted field set
C2_Witness ==
    /\ merge_calls = 2
    /\ \E f \in MergeableFields :
         f \in DOMAIN iiif_metadata /\ f \in DOMAIN row_dict
         /\ row_dict[f] = iiif_metadata[f]

----------------------------------------------------------------------------
(* Text of table cells and column names                                    *)
(*                                                                         *)
(* A cell or a column name is a sequence of tokens: the characters " " and *)
(* "#", the Christmas tree emoji "TREE", lower-case words such as "paso",  *)
(* and the shift token "^", which marks the word after it as written with  *)
(* capital letters ("^" "paso" is "Paso" or "PASO").                       *)

\* str.lower()
Lower(s) == SelectSeq(s, LAMBDA t : t # "^")

\* str.startswith('#')
StartsWithHash(s) == s # <<>> /\ Head(s) = "#"

\* a missing cell (float NaN, or None): what pd.notna() rejects
NaN == <<"<NaN>">>

\* pd.notna(val)
NotNa(val) == val # NaN

\* str(val) of a cell
PyStr(val) == IF val = NaN THEN <<"nan">> ELSE val

RECURSIVE SortedSeq(_)
\* the members of a finite set of integers, in increasing order
SortedSeq(S) ==
    IF S = {} THEN <<>>
    ELSE LET m == CHOOSE x \in S : \A y \in S : x <= y
         IN  <<m>> \o SortedSeq(S \ {m})

----------------------------------------------------------------------------
(* csv_utils.py: COLUMN_NAME_MAPPING, normalize_column_names, is_header_row *)

\* the items of the dict literal COLUMN_NAME_MAPPING, as (key, value) pairs
ColumnNameItems ==
    { <<"paso", "step">>, <<"objeto", "object">>, <<"pregunta", "question">>,
      <<"respuesta", "answer">>, <<"boton_capa1", "layer1_button">>,
      <<"contenido_capa1", "layer1_content">>,
      <<"archivo_capa1", "layer1_content">>, <<"boton_capa2", "layer2_button">>,
      <<"contenido_capa2", "layer2_content">>,
      <<"archivo_capa2", "layer2_content">>, <<"layer1_file", "layer1_content">>,
      <<"layer2_file", "layer2_content">>,
      <<"id_objeto", "object_id">>, <<"titulo", "title">>,
      <<"descripcion", "description">>,
      <<"url_fuente", "source_url">>, <<"creador", "creator">>, <<"periodo", "period">>,
      <<"medio", "medium">>, <<"dimensiones", "dimensions">>, <<"ubicacion", "source">>,
      <<"credito", "credit">>, <<"miniatura", "thumbnail">>, <<"año", "year">>,
      <<"ano", "year">>, <<"tipo_objeto", "object_type">>, <<"temas", "subjects">>,
      <<"materias", "subjects">>, <<"materia", "subjects">>, <<"destacado", "featured">>,
      <<"fuente", "source">>, <<"location", "source">>, <<"orden", "order">>,
      <<"id_historia", "story_id">>, <<"subtitulo", "subtitle">>, <<"firma", "byline">>,
      <<"private", "protected">>, <<"privada", "protected">>,
      <<"protegida", "protected">>,
      <<"id_termino", "term_id">>, <<"id_término", "term_id">>, <<"título", "title">>,
      <<"definición", "definition">>, <<"definicion", "definition">>,
      <<"términos_relacionados", "related_terms">>,
      <<"terminos_relacionados", "related_terms">> }

\* a table that kept the pre-0.8 direction 'source' -> 'location' beside the
\* new 'location' -> 'source'
COLUMN_NAME_MAPPING_BothDirections == ColumnNameItems \cup {<<"source", "location">>}

\* the dict COLUMN_NAME_MAPPING
COLUMN_NAME_MAPPING == ColumnNameItems

\* COLUMN_NAME_MAPPING.keys() and .values(), each as one-word text
MappingKeys == {<<p[1]>> : p \in COLUMN_NAME_MAPPING}
MappingValues == {<<p[2]>> : p \in COLUMN_NAME_MAPPING}

\* COLUMN_NAME_MAPPING[key]
MappingLookup(key) == <<(CHOOSE p \in COLUMN_NAME_MAPPING : <<p[1]>> = key)[2]>>

\* the names is_header_row adds to the keys and values of the mapping
CommonColumnNames ==
    { <<w>> : w \in
        {"x", "y", "zoom", "order", "story_id", "title", "subtitle", "byline",
         "object_id", "description", "source_url", "creator", "period", "medium",
         "dimensions", "location", "source", "credit", "thumbnail", "year",
         "object_type", "subjects", "featured", "protected"} }

\* valid_names of is_header_row
valid_names == MappingKeys \cup MappingValues \cup CommonColumnNames

\* the match rate 0.8 of is_header_row, as the fraction 8 / 10
HeaderThresholdNum == 8
HeaderThresholdDen == 10

RECURSIVE CountCells(_, _)
\* the loop of is_header_row: <<matches, total>> over the cells from i on
CountCells(row, i) ==
    IF i > Len(row) THEN <<0, 0>>
    ELSE LET rest == CountCells(row, i + 1)
         IN  IF NotNa(row[i])
             THEN <<rest[1] + (IF Strip(Lower(PyStr(row[i]))) \in valid_names THEN 1 ELSE 0),
                    rest[2] + 1>>
             ELSE rest

\* a slip that asks for more than 80% instead of at least 80%
is_header_row_above(row) ==
    LET c == CountCells(row, 1)
    IN  c[2] > 0 /\ c[1] * HeaderThresholdDen > HeaderThresholdNum * c[2]

\* is_header_row(row_values): total > 0 and matches / total >= 0.8 (the float
\* quotient compares with 0.8 as the fraction does, for any row that fits in
\* memory)
is_header_row(row) ==
    LET c == CountCells(row, 1)
    IN  c[2] > 0 /\ c[1] * HeaderThresholdDen >= HeaderThresholdNum * c[2]

\* the columns normalize_column_names renames, in column order: the
\* "[INFO] Normalized column" lines it prints
RenamedColumns(columns) ==
    SelectSeq(columns, LAMBDA col : Strip(Lower(col)) \in MappingKeys)

\* normalize_column_names putting every column name in lower case without the
\* spaces around it, renamed or not
normalize_column_names_folding(columns) ==
    [i \in 1..Len(columns) |->
        LET col_lower == Strip(Lower(columns[i]))
        IN  IF col_lower \in MappingKeys THEN MappingLookup(col_lower) ELSE col_lower]

\* normalize_column_names(df): the columns of the returned frame
normalize_column_names(columns) ==
    [i \in 1..Len(columns) |->
        LET col_lower == Strip(Lower(columns[i]))
        IN  IF col_lower \in MappingKeys THEN MappingLookup(col_lower) ELSE columns[i]]

----------------------------------------------------------------------------
(* is_header_row applied to one row *)

\* cells of a row: a missing cell, an empty string, a canonical name, an alias
\* in capitals, a name with a space before it, and a data value
HeaderCells ==
    { NaN, <<>>, <<"step">>, <<"^", "objeto">>, <<" ", "x">>, <<"v", "1">> }

IdleHeader ==
    /\ row_values = <<>>
    /\ header_checked = FALSE
    /\ header_result = FALSE

InitHeader ==
    /\ \E n \in 0..MaxRowLen : row_values \in [1..n -> HeaderCells]
    /\ header_checked = FALSE
    /\ header_result = FALSE

\* one call is_header_row(row_values)
IsHeaderRow ==
    /\ ~header_checked
    /\ header_checked' = TRUE
    /\ header_result' = is_header_row(row_values)
    /\ UNCHANGED <<row_values, exceptHeaderVars>>

----------------------------------------------------------------------------
(* C3: the duplicate-header threshold *)

\* the cells of the row that are present (not NaN / None)
PresentCells == {i \in 1..Len(row_values) : NotNa(row_values[i])}

\* the present cells equal to a known name ignoring case and surrounding
\* whitespace
TrimmedNameCells ==
    {i \in PresentCells : Strip(Lower(row_values[i])) \in valid_names}

\* the present cells equal to a known name ignoring case only
CaseOnlyNameCells ==
    {i \in PresentCells : Lower(row_values[i]) \in valid_names}

\* C3 as stated: a row is a header row exactly when it has a non-empty cell
\* and the non-empty cells that case-insensitively equal a known name are at
\* least 80% of the non-empty cells.
C3_HeaderThresholdAsStated ==
    header_checked =>
        (header_result <=>
            /\ PresentCells # {}
            /\ 10 * Cardinality(CaseOnlyNameCells) >= 8 * Cardinality(PresentCells))

\* C3 amended: a row is a header row exactly when it has a cell that is not
\* missing and the present cells that equal a known name after lower-casing
\* and trimming are at least 80% of the present cells (4 of 5 is a header, any
\* lower rate is data, a row with no present cell is data).
C3_HeaderThreshold ==
    header_checked =>
        (header_result <=>
            /\ PresentCells # {}
            /\ 10 * Cardinality(TrimmedNameCells) >= 8 * Cardinality(PresentCells))

\* a row at exactly 80% was classified as a header row
C3_Witness ==
    /\ header_checked
    /\ header_result
    /\ Cardinality(PresentCells) = 5
    /\ Cardinality(TrimmedNameCells) = 4

----------------------------------------------------------------------------
(* normalize_column_names applied to the columns of one table *)

\* words a header can be made of: every key and value of the mapping, and two
\* names the mapping does not know
HeaderWords ==
    {p[1] : p \in ColumnNameItems} \cup {p[2] : p \in ColumnNameItems}
        \cup {"zoom", "notes"}

\* headers as authors write them: the bare word, or capitalised with spaces
\* around it
HeaderNames ==
    {<<w>> : w \in HeaderWords} \cup {<<" ", "^", w, " ">> : w \in HeaderWords}

\* pd.read_csv gives every column its own name (a repeated header is renamed
\* 'name.1')
PairwiseDistinct(s) == \A i, j \in 1..Len(s) : i # j => s[i] # s[j]

IdleNorm ==
    /\ norm_columns = <<>>
    /\ norm_before = <<>>
    /\ norm_log = <<>>
    /\ norm_calls = 0

InitNorm ==
    /\ \E n \in 0..MaxHeaderLen :
         /\ norm_columns \in [1..n -> HeaderNames]
         /\ PairwiseDistinct(norm_columns)
    /\ norm_before = norm_columns
    /\ norm_log = <<>>
    /\ norm_calls = 0

\* one call df = normalize_column_names(df)
NormalizeColumnNames ==
    /\ norm_calls < MaxNormCalls
    /\ norm_before' = norm_columns
    /\ norm_columns' = normalize_column_names(norm_columns)
    /\ norm_log' = norm_log \o RenamedColumns(norm_columns)
    /\ norm_calls' = norm_calls + 1
    /\ UNCHANGED <<exceptNormVars>>

----------------------------------------------------------------------------
(* C5: column normalization is idempotent *)

\* C5: applying normalize_column_names to its own output renames nothing: the
\* second call leaves every column name as it is (no canonical name is itself
\* an alias of another name).
C5_NormalizeIdempotent ==
    norm_calls >= 2 => norm_columns = norm_before

\* the second call ran on a table whose columns the first call had renamed
C5_Witness ==
    /\ norm_calls = 2
    /\ norm_log # <<>>
    /\ \E i \in 1..Len(norm_columns) : norm_columns[i] = <<"source">>

----------------------------------------------------------------------------
(* C28: column names after normalization *)

\* the call has run on a table whose header names were pairwise distinct
NormalizedDistinct == norm_calls >= 1 /\ PairwiseDistinct(norm_before)

\* column a is an alias of the mapping, and column b is the canonical name
\* of that alias or another alias of the same canonical name
SameField(a, b) ==
    /\ Strip(Lower(a)) \in MappingKeys
    /\ \/ b = MappingLookup(Strip(Lower(a)))
       \/ /\ Strip(Lower(b)) \in MappingKeys
          /\ MappingLookup(Strip(Lower(b))) = MappingLookup(Strip(Lower(a)))

\* C28 as stated: if the header names of the input table are pairwise
\* distinct, the column names after normalize_column_names are pairwise
\* distinct.
C28_NormalizedNamesDistinct ==
    NormalizedDistinct => PairwiseDistinct(norm_columns)

\* C28: if the header names of the input table are pairwise distinct and no
\* two of them stand for the same field (two aliases of one canonical name,
\* or an alias next to its canonical name), the column names after
\* normalize_column_names are pairwise distinct.
C28_NormalizedNamesDistinctFields ==
    (/\ NormalizedDistinct
     /\ \A i, j \in 1..Len(norm_before) :
           i # j => ~SameField(norm_before[i], norm_before[j]))
        => PairwiseDistinct(norm_columns)

\* two columns went in, one of them was renamed, and two names came out
C28_Witness ==
    /\ NormalizedDistinct
    /\ Len(norm_before) = 2
    /\ norm_columns # norm_before
    /\ norm_columns[1] # norm_columns[2]
    /\ \A i, j \in 1..2 : i # j => ~SameField(norm_before[i], norm_before[j])

----------------------------------------------------------------------------
(* core.py: csv_to_json, up to the call of process_func                    *)
(*                                                                         *)
(* A frame is a record: columns (the column names), rows (one sequence of  *)
(* cells per row), and the history fields colsrc and rowsrc, which give    *)
(* for every column and row its position in the table read from the file.  *)

\* the cells of row r of a frame in the columns numbered by cols
RowCells(r, cols) == [j \in 1..Len(cols) |-> r[cols[j]]]

\* a slip that drops a row when a cell of any column starts with '#'
FilterCommentRowsAnyColumn(df) ==
    LET keep == SortedSeq({i \in 1..Len(df.rows) :
                    \A j \in 1..Len(df.rows[i]) :
                        ~StartsWithHash(Strip(PyStr(df.rows[i][j])))})
    IN  [df EXCEPT !.rows = [k \in 1..Len(keep) |-> df.rows[keep[k]]],
                   !.rowsrc = [k \in 1..Len(keep) |-> df.rowsrc[keep[k]]]]

\* df[~df[first_col].astype(str).str.strip().str.startswith('#')]
FilterCommentRows(df) ==
    LET keep == SortedSeq({i \in 1..Len(df.rows) :
                    ~StartsWithHash(Strip(PyStr(df.rows[i][1])))})
    IN  [df EXCEPT !.rows = [k \in 1..Len(keep) |-> df.rows[keep[k]]],
                   !.rowsrc = [k \in 1..Len(keep) |-> df.rowsrc[keep[k]]]]

\* df[[col for col in df.columns if not col.startswith('#')]]
FilterCommentColumns(df) ==
    LET keep == SortedSeq({j \in 1..Len(df.columns) : ~StartsWithHash(df.columns[j])})
    IN  [df EXCEPT !.columns = RowCells(df.columns, keep),
                   !.colsrc = RowCells(df.colsrc, keep),
                   !.rows = [i \in 1..Len(df.rows) |-> RowCells(df.rows[i], keep)]]

\* a slip that tests every row instead of the first one
SkipDuplicateHeaderAnywhere(df) ==
    LET keep == SortedSeq({i \in 1..Len(df.rows) : ~is_header_row(df.rows[i])})
    IN  [df EXCEPT !.rows = [k \in 1..Len(keep) |-> df.rows[keep[k]]],
                   !.rowsrc = [k \in 1..Len(keep) |-> df.rowsrc[keep[k]]]]

\* if len(df) > 0 and is_header_row(df.iloc[0].values): df = df.iloc[1:]
SkipDuplicateHeader(df) ==
    IF Len(df.rows) > 0 /\ is_header_row(df.rows[1])
    THEN [df EXCEPT !.rows = Tail(df.rows), !.rowsrc = Tail(df.rowsrc)]
    ELSE df

\* tree_pattern.sub('', str(x)) if pd.notna(x) else x
SanitizeCell(x) == IF NotNa(x) THEN SelectSeq(x, LAMBDA t : t # "TREE") ELSE x

\* pd.api.types.is_string_dtype(df[col]): a column of strings is a string
\* column; whether a column that mixes strings with missing cells is one
\* depends on the pandas release (mixedIsString)
IsStringColumn(df, j, mixedIsString) ==
    /\ \E i \in 1..Len(df.rows) : NotNa(df.rows[i][j])
    /\ mixedIsString \/ \A i \in 1..Len(df.rows) : NotNa(df.rows[i][j])

\* sanitize_dataframe(df)
sanitize_dataframe(df, mixedIsString) ==
    [df EXCEPT !.rows =
        [i \in 1..Len(df.rows) |->
            [j \in 1..Len(df.columns) |->
                IF IsStringColumn(df, j, mixedIsString)
                THEN SanitizeCell(df.rows[i][j])
                ELSE df.rows[i][j]]]]

\* the body of csv_to_json from pd.read_csv to the frame process_func receives
csv_to_json(df, mixedIsString) ==
    LET noCommentRows == FilterCommentRows(df)
        noCommentCols == FilterCommentColumns(noCommentRows)
        noDupHeader == SkipDuplicateHeader(noCommentCols)
        normalized == [noDupHeader EXCEPT
                          !.columns = normalize_column_names(noDupHeader.columns)]
    IN  sanitize_dataframe(normalized, mixedIsString)

\* cells of the tables: a comment marker, one after a space, a value with '#'
\* inside, a column name in capitals, a value with the emoji, a missing cell
CellComment == <<"#", "c">>
CellPadComment == <<" ", "#", "c">>
CellHashInside == <<"v", "#", "w">>
CellName == <<"^", "objeto">>
CellTree == <<"v", "TREE">>

\* the rows of the tables (first column, second column)
RowKinds ==
    { <<CellComment, CellHashInside>>, <<CellPadComment, CellHashInside>>,
      <<CellHashInside, CellComment>>, <<CellHashInside, CellHashInside>>,
      <<CellName, CellName>>, <<CellName, CellHashInside>>,
      <<NaN, CellName>>, <<CellTree, NaN>> }

\* the header rows of the tables: two different names out of an alias, an
\* instruction column, a name with a space before its '#', an unknown name
ColumnKinds == { <<"paso">>, <<"#", "n">>, <<" ", "#", "n">>, <<"x">> }
HeaderKinds == {<<a, b>> : a, b \in ColumnKinds} \ {<<a, a>> : a \in ColumnKinds}

EmptyFrame == [columns |-> <<>>, colsrc |-> <<>>, rows |-> <<>>, rowsrc |-> <<>>]

IdleCsv ==
    /\ df_in = EmptyFrame
    /\ df_out = EmptyFrame
    /\ csv_pc = "read"

InitCsv ==
    /\ \E h \in HeaderKinds, n \in 0..MaxRows :
         \E rs \in [1..n -> RowKinds] :
            df_in = [columns |-> h, colsrc |-> <<1, 2>>,
                     rows |-> rs, rowsrc |-> [i \in 1..n |-> i]]
    /\ df_out = EmptyFrame
    /\ csv_pc = "read"

\* one run of csv_to_json on the table
CsvToJson ==
    /\ csv_pc = "read"
    /\ \E mixedIsString \in BOOLEAN : df_out' = csv_to_json(df_in, mixedIsString)
    /\ csv_pc' = "done"
    /\ UNCHANGED <<df_in, exceptCsvVars>>

----------------------------------------------------------------------------
(* C4, C6: what csv_to_json hands to the processor *)

\* the columns of the input whose header does not start with '#'
PlainColumns == SortedSeq({j \in 1..Len(df_in.columns) : ~StartsWithHash(df_in.columns[j])})

\* input row i, in the columns that are handed on
InputRow(i) == RowCells(df_in.rows[i], PlainColumns)

\* the input rows whose first-column value starts with '#'
HashRows == {i \in 1..Len(df_in.rows) : StartsWithHash(PyStr(df_in.rows[i][1]))}

\* the input rows whose first-column value starts with '#' once trimmed
TrimmedHashRows ==
    {i \in 1..Len(df_in.rows) : StartsWithHash(Strip(PyStr(df_in.rows[i][1])))}

\* the input rows left after comment filtering
DataRows == SortedSeq((1..Len(df_in.rows)) \ TrimmedHashRows)

\* the input rows handed to the processor
HandedRows == {df_out.rowsrc[k] : k \in 1..Len(df_out.rowsrc)}

\* C4 as stated: every data row that meets the duplicate-header criterion is
\* dropped, whatever its position: no row handed to the processor meets it.
C4_NoHeaderRowHandedOn ==
    csv_pc = "done" => \A i \in HandedRows : ~is_header_row(InputRow(i))

\* C4 amended: only the first data row left after comment filtering is tested;
\* it is dropped exactly when it meets the duplicate-header criterion (over
\* the columns that are kept), and every later row is handed to the processor
\* whether or not it meets the criterion.
C4_FirstDataRowOnly ==
    csv_pc = "done" =>
        df_out.rowsrc =
            IF DataRows # <<>> /\ is_header_row(InputRow(DataRows[1]))
            THEN Tail(DataRows)
            ELSE DataRows

\* the first data row was dropped as a duplicate header and a later row that
\* also meets the criterion was handed on
C4_Witness ==
    /\ csv_pc = "done"
    /\ DataRows # <<>>
    /\ DataRows[1] \notin HandedRows
    /\ \E i \in HandedRows : is_header_row(InputRow(i))

\* C6 as stated: the rows handed to the processor are exactly the input rows
\* whose first-column value does not start with '#', and the columns exactly
\* those whose header does not start with '#'.
C6_CommentFilterAsStated ==
    csv_pc = "done" =>
        /\ df_out.colsrc = PlainColumns
        /\ df_out.rowsrc = SortedSeq((1..Len(df_in.rows)) \ HashRows)

\* C6 amended: the columns handed on are exactly those whose header does not
\* start with '#'; the rows handed on are, in input order, the input rows
\* whose first-column value does not start with '#' after trimming whitespace,
\* less the first of them when it is dropped as a duplicate header row; a '#'
\* in a later column or inside a cell never drops a row or a column.
C6_CommentFilter ==
    csv_pc = "done" =>
        /\ df_out.colsrc = PlainColumns
        /\ HandedRows \cap TrimmedHashRows = {}
        /\ \A i \in 1..Len(df_in.rows) :
              (i \notin TrimmedHashRows /\ i \notin HandedRows) =>
                  i = DataRows[1] /\ is_header_row(InputRow(i))
        /\ \A k \in 1..(Len(df_out.rowsrc) - 1) : df_out.rowsrc[k] < df_out.rowsrc[k + 1]

\* a comment row and an instruction column were dropped while a row with a
\* '#' cell in its second column and a '#' inside its first cell was handed on
C6_Witness ==
    /\ csv_pc = "done"
    /\ TrimmedHashRows # {}
    /\ Len(PlainColumns) < Len(df_in.columns)
    /\ \E i \in HandedRows : df_in.rows[i] = <<CellHashInside, CellComment>>

----------------------------------------------------------------------------
(* glossary.py: process_glossary_links                                     *)
(*                                                                         *)
(* Text is a sequence of characters. The fixed pieces of markup the        *)
(* function writes (which hold no '[', ']' or '|' and neither start nor    *)
(* end with whitespace) are single tokens of the text.                     *)

\* '<a href="#" class="glossary-inline-link" data-term-id="'
LinkOpen == "<a href=# class=glossary-inline-link data-term-id="
\* ' data-demo="true"'
DemoAttr == " data-demo=true"
\* '">' closing an opening tag
TagEnd == ">"
LinkClose == "</a>"
\* '<span class="glossary-link-error" data-term-id="'
ErrorOpen == "<span class=glossary-link-error data-term-id="
\* the warning sign that starts the text of an error span
WarningSign == "(!)"
ErrorClose == "</span>"

\* [^|\]] of the pattern
IsRunChar(c) == c # "|" /\ c # "]"

RECURSIVE RunEnd(_, _)
\* the first index from q on that is past the text or holds '|' or ']'
RunEnd(t, q) == IF q > Len(t) \/ ~IsRunChar(t[q]) THEN q ELSE RunEnd(t, q + 1)

\* what \s*([^|\]]+?)\s* captures from a non-empty run: the run trimmed; of a
\* run of whitespace, its last character
Captured(run) == IF Strip(run) # <<>> THEN Strip(run) ELSE <<run[Len(run)]>>

NoMatch == [matched |-> FALSE, last |-> 0, group1 |-> <<>>, piped |-> FALSE, group2 |-> <<>>]

\* pattern.match at index p:
\*   \[\[\s*([^|\]]+?)(?:\s*\|\s*([^|\]]+?))?\s*\]\]
MatchAt(t, p) ==
    IF ~(p + 1 <= Len(t) /\ t[p] = "[" /\ t[p + 1] = "[") THEN NoMatch
    ELSE
      LET r == RunEnd(t, p + 2)
          run1 == SubSeq(t, p + 2, r - 1)
      IN  IF run1 = <<>> \/ r > Len(t) THEN NoMatch
          ELSE IF t[r] = "]"
          THEN IF r + 1 <= Len(t) /\ t[r + 1] = "]"
               THEN [matched |-> TRUE, last |-> r + 1, group1 |-> Captured(run1),
                     piped |-> FALSE, group2 |-> <<>>]
               ELSE NoMatch
          ELSE
            LET s == RunEnd(t, r + 1)
                run2 == SubSeq(t, r + 1, s - 1)
            IN  IF run2 # <<>> /\ s + 1 <= Len(t) /\ t[s] = "]" /\ t[s + 1] = "]"
                THEN [matched |-> TRUE, last |-> s + 1, group1 |-> Captured(run1),
                      piped |-> TRUE, group2 |-> Captured(run2)]
                ELSE NoMatch

\* term_id.startswith('demo-')
IsDemoTerm(term_id) ==
    Len(term_id) >= 5 /\ SubSeq(term_id, 1, 5) = <<"d", "e", "m", "o", "-">>

\* step_num and layer_name of the call (stories.py passes the step number and
\* 'layer1' or 'layer2')
CallStep == "step 1"
CallLayer == "layer1"

\* layer_name[-1] if layer_name and layer_name.startswith('layer') else ''
LayerNum(layer) == IF layer = "layer1" THEN "1" ELSE IF layer = "layer2" THEN "2" ELSE ""

\* the dict appended to warnings_list
GlossaryWarning(term_id) ==
    [step |-> CallStep, type |-> "glossary", term_id |-> term_id, layer |-> CallLayer,
     message |-> <<"glossary_term_not_found", term_id, LayerNum(CallLayer)>>]

\* the link element
LinkHtml(term_id, display_text) ==
    <<LinkOpen>> \o term_id \o (IF IsDemoTerm(term_id) THEN <<DemoAttr>> ELSE <<>>)
        \o <<TagEnd>> \o display_text \o <<LinkClose>>

\* the error span, which shows the reference as [[group(1)]]
ErrorHtml(term_id, group1) ==
    <<ErrorOpen>> \o term_id \o <<TagEnd, WarningSign, " ", "[", "[">> \o group1
        \o <<"]", "]", ErrorClose>>

\* str.lower() of one character
CharLower(c) == IF c = "A" THEN "a" ELSE c

\* a slip that looks the identifier up ignoring case
replace_glossary_link_ignoringCase(m, terms) ==
    LET term_id == Strip(m.group1)
        found == \E k \in DOMAIN terms :
                    [i \in 1..Len(k) |-> CharLower(k[i])]
                        = [i \in 1..Len(term_id) |-> CharLower(term_id[i])]
        display_text == IF m.piped THEN Strip(m.group2) ELSE DictGet(terms, term_id, term_id)
    IN  IF found
        THEN [html |-> LinkHtml(term_id, display_text), warnings |-> <<>>,
              item |-> [kind |-> "link", term_id |-> term_id, display_text |-> display_text]]
        ELSE [html |-> ErrorHtml(term_id, m.group1),
              warnings |-> <<GlossaryWarning(term_id)>>,
              item |-> [kind |-> "error", term_id |-> term_id, display_text |-> display_text]]

\* a slip that marks an unresolved reference without recording a warning
replace_glossary_link_unwarned(m, terms) ==
    LET term_id == Strip(m.group1)
        display_text == IF m.piped THEN Strip(m.group2) ELSE DictGet(terms, term_id, term_id)
    IN  IF term_id \in DOMAIN terms
        THEN [html |-> LinkHtml(term_id, display_text), warnings |-> <<>>,
              item |-> [kind |-> "link", term_id |-> term_id, display_text |-> display_text]]
        ELSE [html |-> ErrorHtml(term_id, m.group1), warnings |-> <<>>,
              item |-> [kind |-> "error", term_id |-> term_id, display_text |-> display_text]]

\* a slip that shows the reference as written, [[id]], as the text of the link
replace_glossary_link_bracketed(m, terms) ==
    LET term_id == Strip(m.group1)
        display_text == <<"[", "[">> \o m.group1 \o <<"]", "]">>
    IN  IF term_id \in DOMAIN terms
        THEN [html |-> LinkHtml(term_id, display_text), warnings |-> <<>>,
              item |-> [kind |-> "link", term_id |-> term_id, display_text |-> display_text]]
        ELSE [html |-> ErrorHtml(term_id, m.group1),
              warnings |-> <<GlossaryWarning(term_id)>>,
              item |-> [kind |-> "error", term_id |-> term_id, display_text |-> display_text]]

\* replace_glossary_link(match): the replacement text, the warnings it
\* appends, and (history) what it decided
replace_glossary_link(m, terms) ==
    LET term_id == Strip(m.group1)
        display_text == IF m.piped THEN Strip(m.group2) ELSE DictGet(terms, term_id, term_id)
    IN  IF term_id \in DOMAIN terms
        THEN [html |-> LinkHtml(term_id, display_text), warnings |-> <<>>,
              item |-> [kind |-> "link", term_id |-> term_id, display_text |-> display_text]]
        ELSE [html |-> ErrorHtml(term_id, m.group1),
              warnings |-> <<GlossaryWarning(term_id)>>,
              item |-> [kind |-> "error", term_id |-> term_id, display_text |-> display_text]]

RECURSIVE SubFrom(_, _, _)
\* re.sub(pattern, replace_glossary_link, text), scanning from index p
SubFrom(t, p, terms) ==
    IF p > Len(t) THEN [text |-> <<>>, warnings |-> <<>>, items |-> <<>>]
    ELSE LET m == MatchAt(t, p)
         IN  IF m.matched
             THEN LET rep == replace_glossary_link(m, terms)
                      rest == SubFrom(t, m.last + 1, terms)
                  IN  [text |-> rep.html \o rest.text,
                       warnings |-> rep.warnings \o rest.warnings,
                       items |-> <<rep.item>> \o rest.items]
             ELSE LET rest == SubFrom(t, p + 1, terms)
                  IN  [rest EXCEPT !.text = <<t[p]>> \o rest.text]

\* process_glossary_links(text, glossary_terms, warnings_list, ...): the
\* returned text, the warnings appended and the replacements made
process_glossary_links(text, terms) ==
    IF text = <<>> \/ DOMAIN terms = {}
    THEN [text |-> text, warnings |-> <<>>, items |-> <<>>]
    ELSE SubFrom(text, 1, terms)

\* pieces the texts of the model are written from
Segments ==
    { <<"[", "[", "a">>, <<"[", "[", "A">>, <<"[", "[", "b">>, <<"[", "[">>,
      <<"]", "]">>, <<"|">>, <<"|", " ", "a", " ">>, <<" ">>, <<"a">> }

RECURSIVE Flatten(_)
\* the text made of the pieces in order
Flatten(segs) == IF segs = <<>> THEN <<>> ELSE Head(segs) \o Flatten(Tail(segs))

\* the term dictionaries: none, and one term 'a' titled 'T'
NoTerms == <<>>
OneTerm == [k \in {<<"a">>} |-> <<"T">>]

IdleGlossary ==
    /\ gl_text = <<>>
    /\ gl_terms = NoTerms
    /\ gl_out = <<>>
    /\ gl_prev = <<>>
    /\ gl_items = <<>>
    /\ gl_warnings = <<>>
    /\ gl_warned_before = 0
    /\ gl_pc = "input"

InitGlossary ==
    /\ \E n \in 0..MaxSegments : \E segs \in [1..n -> Segments] : gl_text = Flatten(segs)
    /\ gl_terms \in {NoTerms, OneTerm}
    /\ gl_out = gl_text
    /\ gl_prev = gl_text
    /\ gl_items = <<>>
    /\ gl_warnings = <<>>
    /\ gl_warned_before = 0
    /\ gl_pc = "input"

\* one call text = process_glossary_links(text, glossary_terms, warnings_list):
\* the first on the input text, the second on the output of the first
ProcessGlossaryLinks ==
    /\ gl_pc \in {"input", "linked"}
    /\ LET res == process_glossary_links(gl_out, gl_terms)
       IN  /\ gl_out' = res.text
           /\ gl_items' = res.items
           /\ gl_warnings' = gl_warnings \o res.warnings
    /\ gl_prev' = gl_out
    /\ gl_warned_before' = Len(gl_warnings)
    /\ gl_pc' = IF gl_pc = "input" THEN "linked" ELSE "relinked"
    /\ UNCHANGED <<gl_text, gl_terms, exceptGlossaryVars>>

----------------------------------------------------------------------------
(* C7, C8, C9: the cross-reference linker *)

\* t[p..e] is a reference [[id]] or [[id|display text]]: double brackets
\* around a text without ']' that holds at most one '|', with something on
\* each side of it
IsReference(t, p, e) ==
    /\ p + 4 <= e /\ e <= Len(t)
    /\ t[p] = "[" /\ t[p + 1] = "[" /\ t[e - 1] = "]" /\ t[e] = "]"
    /\ LET inner == SubSeq(t, p + 2, e - 2)
           pipes == {i \in 1..Len(inner) : inner[i] = "|"}
       IN  /\ \A i \in 1..Len(inner) : inner[i] # "]"
           /\ Cardinality(pipes) <= 1
           /\ \A k \in pipes : 1 < k /\ k < Len(inner)

\* the parts of the reference t[p..e]: what stands before the pipe (or between
\* the brackets when there is none) and what stands after it
ReferenceParts(t, p, e) ==
    LET inner == SubSeq(t, p + 2, e - 2)
        pipes == {i \in 1..Len(inner) : inner[i] = "|"}
    IN  IF pipes = {}
        THEN [before |-> inner, piped |-> FALSE, after |-> <<>>]
        ELSE LET k == CHOOSE i \in pipes : TRUE
             IN  [before |-> SubSeq(inner, 1, k - 1), piped |-> TRUE,
                  after |-> SubSeq(inner, k + 1, Len(inner))]

RECURSIVE ReferencesFrom(_, _)
\* the references of a text in the order they occur, from index p on
ReferencesFrom(t, p) ==
    IF p > Len(t) THEN <<>>
    ELSE IF \E e \in p..Len(t) : IsReference(t, p, e)
         THEN LET e == CHOOSE x \in p..Len(t) : IsReference(t, p, x)
              IN  <<ReferenceParts(t, p, e)>> \o ReferencesFrom(t, e + 1)
         ELSE ReferencesFrom(t, p + 1)

\* the references of the text given to the first call, and their identifiers
InputReferences == ReferencesFrom(gl_text, 1)
InputIds == [i \in 1..Len(InputReferences) |-> Strip(InputReferences[i].before)]

\* how often a token occurs in a text
Occurrences(t, token) == Cardinality({i \in 1..Len(t) : t[i] = token})

\* after the first call: every reference is replaced by a link when its id is
\* a key of the dictionary and by an error span when it is not, and the
\* warnings are the unresolved ids in the order of the text
LinkerContract ==
    /\ Len(gl_items) = Len(InputReferences)
    /\ \A i \in 1..Len(gl_items) :
          gl_items[i].kind = IF InputIds[i] \in DOMAIN gl_terms THEN "link" ELSE "error"
    /\ Occurrences(gl_out, LinkOpen)
          = Cardinality({i \in 1..Len(InputIds) : InputIds[i] \in DOMAIN gl_terms})
    /\ Occurrences(gl_out, ErrorOpen)
          = Cardinality({i \in 1..Len(InputIds) : InputIds[i] \notin DOMAIN gl_terms})
    /\ [i \in 1..Len(gl_warnings) |-> gl_warnings[i].term_id]
          = SelectSeq(InputIds, LAMBDA id : id \notin DOMAIN gl_terms)

\* C7 as stated: the contract holds for every text and every dictionary,
\* including an empty one.
C7_LinkerContractAnyDictionary == gl_pc = "linked" => LinkerContract

\* C7 amended: for every text and every non-empty term dictionary, each
\* reference is replaced by a link when its id is a key and by a marked error
\* span when it is not, and the warnings list grows by one entry per
\* unresolved reference, in text order; with an empty dictionary the text is
\* returned as it is and nothing is appended.
C7_LinkerContract ==
    gl_pc = "linked" =>
        IF DOMAIN gl_terms # {}
        THEN LinkerContract
        ELSE gl_out = gl_text /\ gl_warnings = <<>>

\* two unresolved references with different ids were marked and warned about
C7_Witness ==
    /\ gl_pc = "linked"
    /\ DOMAIN gl_terms # {}
    /\ Len(gl_warnings) = 2
    /\ gl_warnings[1].term_id # gl_warnings[2].term_id
    /\ Occurrences(gl_out, ErrorOpen) = 2

\* the second call returned its input and appended no warning
SecondPassNoOp == gl_out = gl_prev /\ Len(gl_warnings) = gl_warned_before

EveryOpenerResolves ==
    \A p \in 1..(Len(gl_text) - 1) :
        (gl_text[p] = "[" /\ gl_text[p + 1] = "[") =>
            \E e \in p..Len(gl_text) :
                /\ IsReference(gl_text, p, e)
                /\ \A i \in (p + 2)..(e - 2) : gl_text[i] # "["
                /\ Strip(ReferenceParts(gl_text, p, e).before) \in DOMAIN gl_terms

----------------------------------------------------------------------------
(* widgets.py: the section parsers of the tabs and accordion widgets *)

\* the most lines a block of the model has
MaxLines == 7

\* section-count bounds of the two widgets
TabsMin == 2
TabsMax == 4
AccordionMin == 2
AccordionMax == 6

RECURSIVE SplitFrom(_, _, _)
\* content.split('\n') from position p on, cur being the line read so far
SplitFrom(t, p, cur) ==
    IF p > Len(t) THEN <<cur>>
    ELSE IF t[p] = "\n" THEN <<cur>> \o SplitFrom(t, p + 1, <<>>)
    ELSE SplitFrom(t, p + 1, Append(cur, t[p]))

\* content.split('\n')
SplitLines(t) == SplitFrom(t, 1, <<>>)

RECURSIVE JoinLines(_)
\* '\n'.join(lines)
JoinLines(lines) ==
    IF lines = <<>> THEN <<>>
    ELSE IF Len(lines) = 1 THEN lines[1]
    ELSE lines[1] \o <<"\n">> \o JoinLines(Tail(lines))

\* line.startswith('## ')
StartsSection(line) == Len(line) >= 3 /\ SubSeq(line, 1, 3) = <<"#", "#", " ">>

\* markdown.markdown(text, extensions=['extra', 'nl2br']): the renderer is a
\* library; empty text gives empty HTML, any other text an element around it
Markdown(text) == IF text = <<>> THEN <<>> ELSE <<"<p>">> \o text \o <<"</p>">>

RECURSIVE SectionsFrom(_, _, _, _)
\* the loop over the lines: current_section is <<>> for None, else <<section>>
SectionsFrom(lines, i, sections, current_section) ==
    IF i > Len(lines) THEN sections \o current_section
    ELSE IF StartsSection(lines[i])
         THEN SectionsFrom(lines, i + 1, sections \o current_section,
                  <<[title |-> Strip(SubSeq(lines[i], 4, Len(lines[i]))),
                     content |-> <<>>]>>)
    ELSE IF current_section # <<>>
         THEN SectionsFrom(lines, i + 1, sections,
                  <<[current_section[1] EXCEPT !.content = Append(@, lines[i])]>>)
    ELSE SectionsFrom(lines, i + 1, sections, current_section)

\* parse_markdown_sections(content)
parse_markdown_sections(content) ==
    LET sections == SectionsFrom(SplitLines(content), 1, <<>>, <<>>)
    IN  [i \in 1..Len(sections) |->
            [title |-> sections[i].title,
             content |-> sections[i].content,
             content_html |-> Markdown(Strip(JoinLines(sections[i].content)))]]

\* the dict appended to warnings_list; the message is kept as its fixed words,
\* the number and the title written into it
WidgetWarning(widget_type, text, number, title) ==
    [type |-> "widget", widget_type |-> widget_type,
     message |-> [text |-> text, number |-> number, title |-> title]]

RECURSIVE EmptySectionWarnings(_, _, _, _)
\* the loop "for i, section in enumerate(sections, 1)" from index i on
EmptySectionWarnings(sections, i, widget_type, text) ==
    IF i > Len(sections) THEN <<>>
    ELSE (IF Strip(sections[i].content_html) = <<>>
          THEN <<WidgetWarning(widget_type, text, i, sections[i].title)>>
          ELSE <<>>)
         \o EmptySectionWarnings(sections, i + 1, widget_type, text)

\* parse_tabs_widget warning at exactly TabsMax sections too
parse_tabs_widget_inclusive(content) ==
    LET sections == parse_markdown_sections(content)
        count == IF Len(sections) < TabsMin
                 THEN <<WidgetWarning("tabs", "Tabs widget must have at least 2 tabs",
                                      Len(sections), <<>>)>>
                 ELSE IF Len(sections) >= TabsMax
                 THEN <<WidgetWarning("tabs", "Tabs widget should have maximum 4 tabs",
                                      Len(sections), <<>>)>>
                 ELSE <<>>
    IN  [result |-> [tabs |-> sections],
         warnings |-> count \o EmptySectionWarnings(sections, 1, "tabs",
                                                     "Tab has no content")]

\* parse_tabs_widget(content, file_path, warnings_list): the dict returned and
\* the warnings appended
parse_tabs_widget(content) ==
    LET sections == parse_markdown_sections(content)
        count == IF Len(sections) < TabsMin
                 THEN <<WidgetWarning("tabs", "Tabs widget must have at least 2 tabs",
                                      Len(sections), <<>>)>>
                 ELSE IF Len(sections) > TabsMax
                 THEN <<WidgetWarning("tabs", "Tabs widget should have maximum 4 tabs",
                                      Len(sections), <<>>)>>
                 ELSE <<>>
    IN  [result |-> [tabs |-> sections],
         warnings |-> count \o EmptySectionWarnings(sections, 1, "tabs",
                                                     "Tab has no content")]

\* parse_accordion_widget(content, file_path, warnings_list): the dict
\* returned and the warnings appended
parse_accordion_widget(content) ==
    LET sections == parse_markdown_sections(content)
        count == IF Len(sections) < AccordionMin
                 THEN <<WidgetWarning("accordion",
                                      "Accordion widget must have at least 2 panels",
                                      Len(sections), <<>>)>>
                 ELSE IF Len(sections) > AccordionMax
                 THEN <<WidgetWarning("accordion",
                                      "Accordion widget should have maximum 6 panels",
                                      Len(sections), <<>>)>>
                 ELSE <<>>
    IN  [result |-> [panels |-> sections],
         warnings |-> count \o EmptySectionWarnings(sections, 1, "accordion",
                                                     "Accordion panel has no content")]

\* the lines the blocks of the model are written from: a section header, a
\* deeper header, a line of text and an empty line
WidgetLines ==
    { <<"#", "#", " ", "t">>, <<"#", "#", "#", " ", "s">>, <<"w">>, <<>> }

\* a warning already in warnings_list when the parser is called
EarlierWarning == WidgetWarning("carousel", "Carousel item missing required field: image", 1, <<>>)

IdleWidget ==
    /\ wd_content = <<>>
    /\ wd_result = <<>>
    /\ wd_warnings = <<>>
    /\ wd_warnings_before = <<>>
    /\ wd_pc = "input"

InitWidget ==
    /\ \E n \in 1..MaxLines : \E lines \in [1..n -> WidgetLines] :
          wd_content = JoinLines(lines)
    /\ wd_result = <<>>
    /\ wd_warnings \in {<<>>, <<EarlierWarning>>}
    /\ wd_warnings_before = wd_warnings
    /\ wd_pc = "input"

\* widget_data = parse_tabs_widget(content, file_path, warnings_list)
ParseTabsWidget ==
    /\ wd_pc = "input"
    /\ LET res == parse_tabs_widget(wd_content)
       IN  /\ wd_result' = res.result
           /\ wd_warnings' = wd_warnings \o res.warnings
    /\ wd_warnings_before' = wd_warnings
    /\ wd_pc' = "tabs"
    /\ UNCHANGED <<wd_content, exceptWidgetVars>>

\* widget_data = parse_accordion_widget(content, file_path, warnings_list)
ParseAccordionWidget ==
    /\ wd_pc = "input"
    /\ LET res == parse_accordion_widget(wd_content)
       IN  /\ wd_result' = res.result
           /\ wd_warnings' = wd_warnings \o res.warnings
    /\ wd_warnings_before' = wd_warnings
    /\ wd_pc' = "accordion"
    /\ UNCHANGED <<wd_content, exceptWidgetVars>>

----------------------------------------------------------------------------
(* C10: the section-count bounds of the tabs and accordion widgets *)

\* the positions of the block where a line starting with '## ' begins
SectionStarts ==
    { p \in 1..Len(wd_content) :
        /\ p = 1 \/ wd_content[p - 1] = "\n"
        /\ p + 2 <= Len(wd_content)
        /\ wd_content[p] = "#" /\ wd_content[p + 1] = "#" /\ wd_content[p + 2] = " " }

\* the warnings the parser appended
AppendedWarnings == SubSeq(wd_warnings, Len(wd_warnings_before) + 1, Len(wd_warnings))

\* a warning about the number of sections
IsCountWarning(w) ==
    w.message.text \in { "Tabs widget must have at least 2 tabs",
                         "Tabs widget should have maximum 4 tabs",
                         "Accordion widget must have at least 2 panels",
                         "Accordion widget should have maximum 6 panels" }

\* the section-count warnings the parser appended
CountWarnings == SelectSeq(AppendedWarnings, IsCountWarning)

\* the sections in the dict the parser returned
ReturnedSections == IF wd_pc = "tabs" THEN wd_result.tabs ELSE wd_result.panels

\* C10: the parsers keep what warnings_list held and append to it; for a block
\* with n sections parse_tabs_widget appends exactly one count warning saying
\* "at least 2" when n < 2, exactly one saying "maximum 4" when n > 4, and none
\* when 2 <= n <= 4; parse_accordion_widget does the same with 2 and 6; all n
\* sections are in the returned dict whatever n is.
C10_SectionBoundsAdvisory ==
    wd_pc # "input" =>
        LET n == Cardinality(SectionStarts)
            most == IF wd_pc = "tabs" THEN 4 ELSE 6
            tooFew == IF wd_pc = "tabs"
                      THEN "Tabs widget must have at least 2 tabs"
                      ELSE "Accordion widget must have at least 2 panels"
            tooMany == IF wd_pc = "tabs"
                       THEN "Tabs widget should have maximum 4 tabs"
                       ELSE "Accordion widget should have maximum 6 panels"
        IN  /\ SubSeq(wd_warnings, 1, Len(wd_warnings_before)) = wd_warnings_before
            /\ Len(ReturnedSections) = n
            /\ n < 2 => CountWarnings = <<WidgetWarning(wd_pc, tooFew, n, <<>>)>>
            /\ n > most => CountWarnings = <<WidgetWarning(wd_pc, tooMany, n, <<>>)>>
            /\ (n >= 2 /\ n <= most) => CountWarnings = <<>>

\* an accordion block of seven sections was parsed: one warning about the
\* count, and the seven sections returned
C10_Witness ==
    /\ wd_pc = "accordion"
    /\ Cardinality(SectionStarts) = 7
    /\ Len(wd_result.panels) = 7
    /\ Len(CountWarnings) = 1
    /\ wd_warnings_before # <<>>

----------------------------------------------------------------------------
(* widgets.py: the carousel parser *)

\* the most sub-blocks a carousel block of the model has
MaxBlocks == 2

\* str.split(sep) for a separator of one token
SplitOn(t, sep) ==
    LET RECURSIVE From(_, _)
        From(p, cur) ==
            IF p > Len(t) THEN <<cur>>
            ELSE IF t[p] = sep THEN <<cur>> \o From(p + 1, <<>>)
            ELSE From(p + 1, Append(cur, t[p]))
    IN  From(1, <<>>)

\* sep.join(parts)
JoinWith(parts, sep) ==
    LET RECURSIVE From(_)
        From(i) == IF i > Len(parts) THEN <<>>
                   ELSE IF i = Len(parts) THEN parts[i]
                   ELSE parts[i] \o sep \o From(i + 1)
    IN  From(1)

\* parse_key_value_block(content): the dict of the 'key: value' lines, a later
\* line with the same key replacing an earlier one
parse_key_value_block(content) ==
    LET lines == SplitOn(Strip(content), "\n")
        colon(line) == CHOOSE p \in 1..Len(line) :
                          line[p] = ":" /\ \A q \in 1..(p - 1) : line[q] # ":"
        RECURSIVE From(_, _)
        From(i, data) ==
            IF i > Len(lines) THEN data
            ELSE LET line == Strip(lines[i])
                 IN  IF (\E p \in 1..Len(line) : line[p] = ":") /\ ~(line # <<>> /\ line[1] = "#")
                     THEN From(i + 1,
                               DictSet(data, Strip(SubSeq(line, 1, colon(line) - 1)),
                                       Strip(SubSeq(line, colon(line) + 1, Len(line)))))
                     ELSE From(i + 1, data)
    IN  From(1, <<>>)

\* re.sub(r'^<p>(.*)</p>$', r'\1', html.strip()): the paragraph tags around a
\* rendered one-line text are taken off
Unparagraph(html) ==
    LET h == Strip(html)
    IN  IF Len(h) >= 2 /\ h[1] = "<p>" /\ h[Len(h)] = "</p>"
        THEN SubSeq(h, 2, Len(h) - 1) ELSE h

\* get_image_dimensions found nothing
NoDimensions == <<>>

\* validate_image_path(image, file_path)[0] and get_image_dimensions(image) as
\* the image store `images` answers them; a path the store does not hold is
\* not found and has no dimensions
ImageExists(images, path) == path \in DOMAIN images /\ images[path].exists
ImageDimensions(images, path) ==
    IF path \in DOMAIN images THEN images[path].dimensions ELSE NoDimensions

\* the loop of parse_carousel_widget over the sub-blocks with every image
\* dropped when its file is not found
carousel_items_dropping_unfound(content, images) ==
    LET blocks == SplitOn(content, "---")
        RECURSIVE From(_, _, _)
        From(block_num, items, warnings) ==
            IF block_num > Len(blocks) THEN [items |-> items, warnings |-> warnings]
            ELSE LET block == Strip(blocks[block_num])
                     data == parse_key_value_block(block)
                 IN  IF block = <<>> THEN From(block_num + 1, items, warnings)
                     ELSE IF <<"image">> \notin DOMAIN data
                     THEN From(block_num + 1, items,
                              Append(warnings,
                                  WidgetWarning("carousel",
                                      "Carousel item missing required field: image",
                                      block_num, <<>>)))
                     ELSE IF ~ImageExists(images, data[<<"image">>])
                     THEN From(block_num + 1, items,
                              Append(warnings,
                                  WidgetWarning("carousel", "Carousel image not found",
                                                0, data[<<"image">>])))
                     ELSE From(block_num + 1, Append(items, data), warnings)
    IN  From(1, <<>>, <<>>)

\* the loop of parse_carousel_widget over the sub-blocks: the items kept and
\* the warnings appended
carousel_items(content, images) ==
    LET blocks == SplitOn(content, "---")
        rendered(data, key) ==
            IF key \in DOMAIN data
            THEN DictSet(data, key, Unparagraph(Markdown(data[key]))) ELSE data
        RECURSIVE From(_, _, _)
        \* the sub-block block_num reads `block` stripped and holds `data`
        Item(block_num, items, warnings, block, data) ==
            LET unfound ==
                    IF ImageExists(images, data[<<"image">>]) THEN <<>>
                    ELSE <<WidgetWarning("carousel", "Carousel image not found",
                                         0, data[<<"image">>])>>
                noAlt ==
                    IF <<"alt">> \in DOMAIN data THEN <<>>
                    ELSE <<WidgetWarning("carousel", "Carousel item missing alt text",
                                         block_num, <<>>)>>
                withAlt == IF <<"alt">> \in DOMAIN data THEN data
                           ELSE DictSet(data, <<"alt">>, <<>>)
            IN  IF block = <<>> THEN From(block_num + 1, items, warnings)
                ELSE IF <<"image">> \notin DOMAIN data
                THEN From(block_num + 1, items,
                         Append(warnings,
                             WidgetWarning("carousel",
                                 "Carousel item missing required field: image",
                                 block_num, <<>>)))
                ELSE From(block_num + 1,
                         Append(items, rendered(rendered(withAlt, <<"caption">>),
                                                <<"credit">>)),
                         warnings \o unfound \o noAlt)
        From(block_num, items, warnings) ==
            IF block_num > Len(blocks) THEN [items |-> items, warnings |-> warnings]
            ELSE Item(block_num, items, warnings, Strip(blocks[block_num]),
                      parse_key_value_block(Strip(blocks[block_num])))
    IN  From(1, <<>>, <<>>)

\* a height/width ratio <<height, width>> is below num/den
RatioBelow(r, num, den) == r[1] * den < num * r[2]

\* the size class of parse_carousel_widget taken from the last usable ratio
carousel_size_class_of_last(items, images) ==
    LET usable == SelectSeq([i \in 1..Len(items) |->
                                ImageDimensions(images, items[i][<<"image">>])],
                            LAMBDA d : d # NoDimensions /\ d[1] > 0)
        last == <<usable[Len(usable)][2], usable[Len(usable)][1]>>
    IN  IF usable = <<>> THEN "default"
        ELSE IF RatioBelow(last, 6, 10) THEN "compact"
        ELSE IF RatioBelow(last, 10, 10) THEN "default"
        ELSE IF RatioBelow(last, 15, 10) THEN "tall"
        ELSE "portrait"

\* the size class of parse_carousel_widget: aspect_ratios holds height / width
\* of every item with dimensions and width > 0; the quotients are kept exact
\* as <<height, width>>, and 0.6, 1.0, 1.5 are 6/10, 10/10, 15/10
carousel_size_class(items, images) ==
    LET usable == SelectSeq([i \in 1..Len(items) |->
                                ImageDimensions(images, items[i][<<"image">>])],
                            LAMBDA d : d # NoDimensions /\ d[1] > 0)
        aspect_ratios == [i \in 1..Len(usable) |-> <<usable[i][2], usable[i][1]>>]
        RECURSIVE MaxFrom(_, _)
        MaxFrom(i, best) ==
            IF i > Len(aspect_ratios) THEN best
            ELSE IF RatioBelow(best, aspect_ratios[i][1], aspect_ratios[i][2])
                 THEN MaxFrom(i + 1, aspect_ratios[i])
            ELSE MaxFrom(i + 1, best)
        max_aspect_ratio == MaxFrom(2, aspect_ratios[1])
    IN  IF aspect_ratios = <<>> THEN "default"
        ELSE IF RatioBelow(max_aspect_ratio, 6, 10) THEN "compact"
        ELSE IF RatioBelow(max_aspect_ratio, 10, 10) THEN "default"
        ELSE IF RatioBelow(max_aspect_ratio, 15, 10) THEN "tall"
        ELSE "portrait"

\* parse_carousel_widget(content, file_path, warnings_list): the dict returned
\* and the warnings appended
parse_carousel_widget(content, images) ==
    LET kept == carousel_items(content, images)
    IN  [result |-> [items |-> kept.items,
                     size_class |-> carousel_size_class(kept.items, images)],
         warnings |-> kept.warnings]

\* the sub-blocks the carousel blocks of the model are written from: an image
\* with alt text, an image with a caption and no alt text, alt text without
\* an image, nothing, and an image line that is commented out
CarouselBlocks ==
    { <<"image", ":", " ", "p1", "\n", "alt", ":", " ", "x">>,
      <<"image", ":", " ", "p2", "\n", "caption", ":", " ", "c">>,
      <<"alt", ":", " ", "x">>,
      <<>>,
      <<"#", " ", "image", ":", " ", "p1", "\n", "alt", ":", " ", "x">> }

\* the <<width, height>> an image of the model can have
CarouselDimensions ==
    { NoDimensions, <<0, 10>>, <<10, 5>>, <<5, 3>>, <<10, 9>>, <<10, 10>>,
      <<10, 14>>, <<10, 15>>, <<2, 4>> }

\* what the image store can hold for one path: no file, or a file whose
\* dimensions can or cannot be read
CarouselImages ==
    { [exists |-> FALSE, dimensions |-> NoDimensions] }
        \cup { [exists |-> TRUE, dimensions |-> d] : d \in CarouselDimensions }

IdleCarousel ==
    /\ cr_content = <<>>
    /\ cr_images = <<>>
    /\ cr_result = <<>>
    /\ cr_warnings = <<>>
    /\ cr_warnings_before = <<>>
    /\ cr_pc = "input"

InitCarousel ==
    /\ \E n \in 1..MaxBlocks : \E blocks \in [1..n -> CarouselBlocks] :
          cr_content = JoinWith(blocks, <<"\n", "---", "\n">>)
    /\ cr_images \in [{<<"p1">>, <<"p2">>} -> CarouselImages]
    /\ cr_result = <<>>
    /\ cr_warnings \in {<<>>, <<EarlierWarning>>}
    /\ cr_warnings_before = cr_warnings
    /\ cr_pc = "input"

\* widget_data = parse_carousel_widget(content, file_path, warnings_list)
ParseCarouselWidget ==
    /\ cr_pc = "input"
    /\ LET res == parse_carousel_widget(cr_content, cr_images)
       IN  /\ cr_result' = res.result
           /\ cr_warnings' = cr_warnings \o res.warnings
    /\ cr_warnings_before' = cr_warnings
    /\ cr_pc' = "parsed"
    /\ UNCHANGED <<cr_content, cr_images, exceptCarouselVars>>

----------------------------------------------------------------------------
(* C11, C12: the carousel *)

\* the kept items whose dimensions are known with width > 0, as the set of
\* their <<width, height>>
UsableDimensions ==
    { ImageDimensions(cr_images, cr_result.items[i][<<"image">>]) :
          i \in 1..Len(cr_result.items) } \ ({NoDimensions} \cup {<<0, h>> : h \in 0..20})

\* C11: with no usable dimensions the class is default; otherwise the class is
\* compact when every ratio height/width is below 0.6, portrait when some
\* ratio is at least 1.5, tall when some ratio is at least 1.0 and none is at
\* least 1.5, and default in the remaining case (the largest ratio is at least
\* 0.6 and below 1.0): the class of the largest ratio, whatever the order.
C11_CarouselSizeClass ==
    cr_pc = "parsed" =>
        LET D == UsableDimensions
            below(d, num, den) == d[2] * den < num * d[1]
            class == cr_result.size_class
        IN  /\ D = {} => class = "default"
            /\ D # {} =>
                 /\ class = "compact" <=> \A d \in D : below(d, 6, 10)
                 /\ class = "default" <=>
                       /\ \E d \in D : ~below(d, 6, 10)
                       /\ \A d \in D : below(d, 10, 10)
                 /\ class = "tall" <=>
                       /\ \E d \in D : ~below(d, 10, 10)
                       /\ \A d \in D : below(d, 15, 10)
                 /\ class = "portrait" <=> \E d \in D : ~below(d, 15, 10)

\* two items were kept, the first with the larger ratio, and the class is the
\* one of the first
C11_Witness ==
    /\ cr_pc = "parsed"
    /\ Len(cr_result.items) = 2
    /\ ImageDimensions(cr_images, cr_result.items[1][<<"image">>]) = <<10, 15>>
    /\ ImageDimensions(cr_images, cr_result.items[2][<<"image">>]) = <<10, 9>>
    /\ cr_result.size_class = "portrait"

\* the sub-blocks of the carousel block, trimmed
SubBlocks ==
    LET blocks == SplitOn(cr_content, "---")
    IN  [i \in 1..Len(blocks) |-> Strip(blocks[i])]

\* the numbers of the sub-blocks, out of their key-value dicts `datas`, that
\* are not empty and define an image, in block order
KeptBlocks(blocks, datas) ==
    SelectSeq([i \in 1..Len(blocks) |-> i],
              LAMBDA i : blocks[i] # <<>> /\ <<"image">> \in DOMAIN datas[i])

\* the warnings the carousel parser appended
CarouselWarnings ==
    SubSeq(cr_warnings, Len(cr_warnings_before) + 1, Len(cr_warnings))

\* C12: the items returned are the non-empty sub-blocks that define an image,
\* in block order, each with the image it names and with the alt text it
\* names or the empty string; what warnings_list held is kept; one warning is
\* appended per non-empty sub-block without an image, one per kept item
\* without an alt key and one per kept item whose image file is not found,
\* and no other warning.
C12_CarouselItemRules ==
    cr_pc = "parsed" =>
        LET items == cr_result.items
            blocks == SubBlocks
            datas == [i \in 1..Len(blocks) |-> parse_key_value_block(blocks[i])]
            kept == KeptBlocks(blocks, datas)
            appended == CarouselWarnings
            count(text) ==
                Cardinality({k \in 1..Len(appended) : appended[k].message.text = text})
        IN  /\ Len(items) = Len(kept)
            /\ \A k \in 1..Len(items) :
                  /\ items[k][<<"image">>] = datas[kept[k]][<<"image">>]
                  /\ DOMAIN items[k] = DOMAIN datas[kept[k]] \cup {<<"alt">>}
                  /\ items[k][<<"alt">>] = DictGet(datas[kept[k]], <<"alt">>, <<>>)
            /\ SubSeq(cr_warnings, 1, Len(cr_warnings_before)) = cr_warnings_before
            /\ count("Carousel item missing required field: image")
                  = Cardinality({i \in 1..Len(blocks) :
                                    blocks[i] # <<>> /\ <<"image">> \notin DOMAIN datas[i]})
            /\ count("Carousel item missing alt text")
                  = Cardinality({k \in 1..Len(kept) : <<"alt">> \notin DOMAIN datas[kept[k]]})
            /\ count("Carousel image not found")
                  = Cardinality({k \in 1..Len(kept) :
                                    ~ImageExists(cr_images, datas[kept[k]][<<"image">>])})
            /\ Len(appended)
                  = count("Carousel item missing required field: image")
                    + count("Carousel item missing alt text")
                    + count("Carousel image not found")

\* a sub-block without an image was dropped with a warning, and an item with
\* no alt text whose image file is not found was kept with two warnings
C12_Witness ==
    /\ cr_pc = "parsed"
    /\ Len(SubBlocks) = 2
    /\ Len(cr_result.items) = 1
    /\ cr_result.items[1][<<"alt">>] = <<>>
    /\ ~ImageExists(cr_images, cr_result.items[1][<<"image">>])
    /\ Len(CarouselWarnings) = 3

----------------------------------------------------------------------------
(* widgets.py: process_widgets and render_widget_html *)

\* the most pieces a text with widget blocks is written from in the model
MaxPieces == 4
\* the most calls of process_widgets in one process, and the most pieces a
\* text after the first is written from
MaxWidgetCalls == 2
MaxLaterPieces == 2

\* the first match of r':::(\w+)\s*\n(.*?)\n:::' (DOTALL) that starts at
\* position p of t: the type is the whole run of word characters after the
\* colons; '\s*\n' ends at a newline of the white space that follows, the
\* last one tried first; the content runs to the first '\n:::' after it
WidgetMatchAt(t, p) ==
    LET isWord(c) == c \notin {":", " ", "\n", "#", "---"}
        colons(q) == q + 2 <= Len(t) /\ t[q] = ":" /\ t[q + 1] = ":" /\ t[q + 2] = ":"
        RECURSIVE WordEnd(_)
        WordEnd(q) == IF q <= Len(t) /\ isWord(t[q]) THEN WordEnd(q + 1) ELSE q
        RECURSIVE SpaceEnd(_)
        SpaceEnd(q) == IF q <= Len(t) /\ IsSpace(t[q]) THEN SpaceEnd(q + 1) ELSE q
        w == WordEnd(p + 3)
        s == SpaceEnd(w)
        closers(q) == {e \in (q + 1)..Len(t) : t[e] = "\n" /\ colons(e + 1)}
        newlines == {q \in w..(s - 1) : t[q] = "\n" /\ closers(q) # {}}
        q == CHOOSE x \in newlines : \A y \in newlines : y <= x
        e == CHOOSE x \in closers(q) : \A y \in closers(q) : x <= y
    IN  IF colons(p) /\ w > p + 3 /\ newlines # {}
        THEN [matched |-> TRUE, last |-> e + 3, type |-> SubSeq(t, p + 3, w - 1),
              content |-> SubSeq(t, q + 1, e - 1)]
        ELSE [matched |-> FALSE, last |-> 0, type |-> <<>>, content |-> <<>>]

\* what the template of a widget type does when it is loaded and rendered
TemplateOutcomes == {"renders", "get_template raises", "render raises"}

\* render_widget_html letting a failure of template.render escape
render_widget_html_unguarded(widget_type, widget_data, widget_id, templates) ==
    IF templates[widget_type] = "renders"
    THEN [raised |-> FALSE, html |-> <<"<div class=telar-widget id=", widget_id, ">">>
                                        \o widget_type \o <<"</div>">>]
    ELSE IF templates[widget_type] = "render raises"
    THEN [raised |-> TRUE, html |-> <<>>]
    ELSE [raised |-> FALSE,
          html |-> <<"<div class=telar-widget-error>", "Widget rendering error">>
                      \o widget_type \o <<templates[widget_type], "</div>">>]

\* render_widget_html(widget_type, widget_data, widget_id): what the template
\* renders, or the error element when anything in the try block raises;
\* `raised` tells whether an exception leaves the function
render_widget_html(widget_type, widget_data, widget_id, templates) ==
    IF templates[widget_type] = "renders"
    THEN [raised |-> FALSE, html |-> <<"<div class=telar-widget id=", widget_id, ">">>
                                        \o widget_type \o <<"</div>">>]
    ELSE [raised |-> FALSE,
          html |-> <<"<div class=telar-widget-error>", "Widget rendering error">>
                      \o widget_type \o <<templates[widget_type], "</div>">>]

\* the image store the carousel blocks of a text are parsed against
NoImages == <<>>

\* get_widget_id leaving _widget_counter as it is
get_widget_id_without_increment(counter) == counter

\* get_widget_id() with _widget_counter at `counter`: the value the counter is
\* raised to, which is the N of the 'widget-N' returned
get_widget_id(counter) == counter + 1

\* the replacement of a block of a known type: what render_widget_html
\* makes of the parsed block, with the warnings of the parser
RenderedWidget(widget_type, parsed, widget_id, templates) ==
    LET rendered == render_widget_html(widget_type, parsed.result, widget_id, templates)
    IN  [kind |-> "widget", raised |-> rendered.raised, html |-> rendered.html,
         warnings |-> parsed.warnings]

\* the replacement of a block whose type is not known
UnknownWidget(widget_type) ==
    [kind |-> "unknown", raised |-> FALSE,
     html |-> <<"<div class=telar-widget-error>", "Unknown widget type">>
                 \o widget_type \o <<"</div>">>,
     warnings |-> <<WidgetWarning(widget_type, "Unknown widget type", 0, widget_type)>>]

\* replace_widget comparing the type as written, without lower()
replace_widget_case_sensitive(m, templates, counter) ==
    LET widget_type == m.type
        widget_id == "widget-" \o ToString(get_widget_id(counter))
    IN  IF widget_type = <<"carousel">>
        THEN RenderedWidget(widget_type, parse_carousel_widget(m.content, NoImages),
                            widget_id, templates)
        ELSE IF widget_type = <<"tabs">>
        THEN RenderedWidget(widget_type, parse_tabs_widget(m.content), widget_id, templates)
        ELSE IF widget_type = <<"accordion">>
        THEN RenderedWidget(widget_type, parse_accordion_widget(m.content), widget_id,
                            templates)
        ELSE UnknownWidget(widget_type)

\* replace_widget(match) with _widget_counter at `counter` before the call:
\* the replacement, the warnings appended, and whether an exception escapes
replace_widget(m, templates, counter) ==
    LET widget_type == Lower(m.type)
        widget_id == "widget-" \o ToString(get_widget_id(counter))
    IN  IF widget_type = <<"carousel">>
        THEN RenderedWidget(widget_type, parse_carousel_widget(m.content, NoImages),
                            widget_id, templates)
        ELSE IF widget_type = <<"tabs">>
        THEN RenderedWidget(widget_type, parse_tabs_widget(m.content), widget_id, templates)
        ELSE IF widget_type = <<"accordion">>
        THEN RenderedWidget(widget_type, parse_accordion_widget(m.content), widget_id,
                            templates)
        ELSE UnknownWidget(widget_type)

\* process_widgets(text, file_path, warnings_list): re.sub over the text from
\* the left; an exception in a replacement ends the call at that block
process_widgets(text, templates, counter) ==
    LET RECURSIVE From(_, _)
        \* the block matched at p has been replaced by r
        Replaced(p, acc, m, r) ==
            IF r.raised
            THEN [acc EXCEPT !.raised = TRUE, !.counter = get_widget_id(@),
                             !.warnings = @ \o r.warnings]
            ELSE From(m.last + 1,
                      [text |-> acc.text \o r.html,
                       warnings |-> acc.warnings \o r.warnings,
                       counter |-> get_widget_id(acc.counter),
                       raised |-> FALSE,
                       items |-> Append(acc.items,
                                   [start |-> p, last |-> m.last, type |-> m.type,
                                    content |-> m.content,
                                    id |-> get_widget_id(acc.counter),
                                    kind |-> r.kind, html |-> r.html])])
        \* m is what the pattern matches at p
        Matched(p, acc, m) ==
            IF ~m.matched THEN From(p + 1, [acc EXCEPT !.text = Append(@, text[p])])
            ELSE Replaced(p, acc, m, replace_widget(m, templates, acc.counter))
        From(p, acc) ==
            IF p > Len(text) THEN acc ELSE Matched(p, acc, WidgetMatchAt(text, p))
    IN  From(1, [text |-> <<>>, warnings |-> <<>>, counter |-> counter,
                 raised |-> FALSE, items |-> <<>>])

\* the pieces the texts of the model are written from: a tabs block, an
\* Accordion block and a block of an unknown type up to their closing fence,
\* the closing fence, a word and a line break
WidgetPieces ==
    { <<":", ":", ":", "tabs", "\n", "#", "#", " ", "t">>,
      <<":", ":", ":", "^", "accordion", "\n", "#", "#", " ", "t">>,
      <<":", ":", ":", "gallery", "\n", "w">>,
      <<"\n", ":", ":", ":">>,
      <<"w">>,
      <<"\n">> }

\* the template directories of the model: every template renders, or some
\* template cannot be loaded or fails while rendering
TemplateStores ==
    LET store(tabs, accordion) ==
            [t \in {<<"carousel">>, <<"tabs">>, <<"accordion">>} |->
                IF t = <<"tabs">> THEN tabs
                ELSE IF t = <<"accordion">> THEN accordion ELSE "renders"]
    IN  { store("renders", "renders"), store("get_template raises", "renders"),
          store("renders", "render raises"),
          store("render raises", "get_template raises") }

IdleProcessWidgets ==
    /\ pw_text = <<>>
    /\ pw_templates = <<>>
    /\ pw_out = <<>>
    /\ pw_items = <<>>
    /\ pw_warnings = <<>>
    /\ pw_warnings_before = <<>>
    /\ pw_counter = 0
    /\ pw_ids = <<>>
    /\ pw_calls = 0
    /\ pw_pc = "input"

InitProcessWidgets ==
    /\ \E n \in 0..MaxPieces : \E pieces \in [1..n -> WidgetPieces] :
          pw_text = JoinWith(pieces, <<>>)
    /\ pw_templates \in TemplateStores
    /\ pw_out = <<>>
    /\ pw_items = <<>>
    /\ pw_warnings \in {<<>>, <<EarlierWarning>>}
    /\ pw_warnings_before = pw_warnings
    /\ pw_counter = 0
    /\ pw_ids = <<>>
    /\ pw_calls = 0
    /\ pw_pc = "input"

\* body = process_widgets(body, file_path, widget_warnings)
ProcessWidgets ==
    /\ pw_pc = "input"
    /\ \E res \in {process_widgets(pw_text, pw_templates, pw_counter)} :
           /\ pw_out' = res.text
           /\ pw_items' = res.items
           /\ pw_warnings' = pw_warnings \o res.warnings
           /\ pw_counter' = res.counter
           /\ pw_ids' = pw_ids \o [k \in 1..Len(res.items) |-> res.items[k].id]
           /\ pw_pc' = IF res.raised THEN "raised" ELSE "returned"
    /\ pw_warnings_before' = pw_warnings
    /\ pw_calls' = pw_calls + 1
    /\ UNCHANGED <<pw_text, pw_templates, exceptProcessWidgetsVars>>

\* the next markdown file or inline cell of the build is read: the text is
\* new and so is its list of widget warnings (stories.py: one list per panel)
NextMarkdownFile ==
    /\ pw_pc = "returned"
    /\ pw_calls < MaxWidgetCalls
    /\ \E n \in 0..MaxLaterPieces : \E pieces \in [1..n -> WidgetPieces] :
          pw_text' = JoinWith(pieces, <<>>)
    /\ pw_out' = <<>>
    /\ pw_items' = <<>>
    /\ pw_warnings' = <<>>
    /\ pw_warnings_before' = <<>>
    /\ pw_pc' = "input"
    /\ UNCHANGED <<pw_templates, pw_counter, pw_ids, pw_calls, exceptProcessWidgetsVars>>

----------------------------------------------------------------------------
(* C13, C14: widget blocks in a text *)

\* the widget blocks of the text from position p on, leftmost first and not
\* overlapping, each with its first and last position and its type
WidgetBlocksFrom(p) ==
    LET RECURSIVE From(_)
        From(q) ==
            IF q > Len(pw_text) THEN <<>>
            ELSE LET m == WidgetMatchAt(pw_text, q)
                 IN  IF m.matched
                     THEN <<[start |-> q, last |-> m.last, type |-> m.type]>>
                              \o From(m.last + 1)
                     ELSE From(q + 1)
    IN  From(p)

\* the type of a block is none of carousel, tabs and accordion, in any case
UnknownType(type) == Lower(type) \notin {<<"carousel">>, <<"tabs">>, <<"accordion">>}

\* C13: when process_widgets returns, its text is the input text with each
\* widget block replaced and every character outside the blocks as it was; a
\* block whose type is none of carousel, tabs and accordion is replaced by the
\* error marker naming the type; the 'Unknown widget type' warnings appended
\* are one per such block, after what warnings_list held; a text without a
\* widget block comes back unchanged with nothing appended.
C13_UnknownTypeAndPlainText ==
    pw_pc = "returned" =>
        LET blocks == WidgetBlocksFrom(1)
            appended == SubSeq(pw_warnings, Len(pw_warnings_before) + 1, Len(pw_warnings))
            RECURSIVE Stitched(_, _)
            Stitched(k, p) ==
                IF k > Len(blocks) THEN SubSeq(pw_text, p, Len(pw_text))
                ELSE SubSeq(pw_text, p, blocks[k].start - 1) \o pw_items[k].html
                         \o Stitched(k + 1, blocks[k].last + 1)
        IN  /\ Len(pw_items) = Len(blocks)
            /\ pw_out = Stitched(1, 1)
            /\ \A k \in 1..Len(blocks) :
                  UnknownType(blocks[k].type) =>
                      pw_items[k].html =
                          <<"<div class=telar-widget-error>", "Unknown widget type">>
                              \o Lower(blocks[k].type) \o <<"</div>">>
            /\ SubSeq(pw_warnings, 1, Len(pw_warnings_before)) = pw_warnings_before
            /\ Cardinality({i \in 1..Len(appended) :
                               appended[i].message.text = "Unknown widget type"})
                  = Cardinality({k \in 1..Len(blocks) : UnknownType(blocks[k].type)})
            /\ blocks = <<>> => pw_out = pw_text /\ pw_warnings = pw_warnings_before

\* a block of an unknown type between other text was replaced by the marker
\* with its warning
C13_Witness ==
    /\ pw_pc = "returned"
    /\ Len(pw_items) = 1
    /\ pw_items[1].kind = "unknown"
    /\ pw_items[1].start > 1
    /\ pw_items[1].last < Len(pw_text)
    /\ Len(pw_warnings) = Len(pw_warnings_before) + 1

\* C14: process_widgets always returns; a block of a known type whose template
\* cannot be loaded or fails while rendering is replaced by the error element
\* telar-widget-error, and the blocks after it are replaced as well.
C14_TemplateFailureContained ==
    pw_pc # "input" =>
        /\ pw_pc = "returned"
        /\ Len(pw_items) = Len(WidgetBlocksFrom(1))
        /\ \A k \in 1..Len(pw_items) :
              (~UnknownType(pw_items[k].type)
                  /\ pw_templates[Lower(pw_items[k].type)] # "renders") =>
                    /\ pw_items[k].html[1] = "<div class=telar-widget-error>"
                    /\ pw_items[k].html[2] = "Widget rendering error"

\* the template of the first block failed while rendering, the error element
\* stands in its place and the block after it was replaced too
C14_Witness ==
    /\ pw_pc = "returned"
    /\ Len(pw_items) = 2
    /\ ~UnknownType(pw_items[1].type)
    /\ pw_templates[Lower(pw_items[1].type)] = "render raises"
    /\ pw_items[1].html[1] = "<div class=telar-widget-error>"

----------------------------------------------------------------------------
(* C25: the fences of a widget block *)

\* position e of the text holds the line break before a line that consists
\* of ':::' alone
FenceCloseLineAt(e) ==
    /\ e + 3 <= Len(pw_text)
    /\ pw_text[e] = "\n"
    /\ pw_text[e + 1] = ":" /\ pw_text[e + 2] = ":" /\ pw_text[e + 3] = ":"
    /\ (e + 3 = Len(pw_text) \/ pw_text[e + 4] = "\n")

\* C25: a block is entered at a fence-open line ':::type' and is left only at
\* the next line that consists of ':::' alone; a later line of the form
\* ':::othertype' does not close the open block, and the content passed to
\* the type-specific parser is exactly the lines between the opening line and
\* that closing line.
C25_FenceScanning ==
    pw_pc = "returned" =>
        \A k \in 1..Len(pw_items) :
            LET item == pw_items[k]
                breaks == {q \in item.start..Len(pw_text) : pw_text[q] = "\n"}
                opened == CHOOSE q \in breaks : \A r \in breaks : q <= r
                closes == {e \in opened..Len(pw_text) : FenceCloseLineAt(e)}
                closed == CHOOSE e \in closes : \A r \in closes : e <= r
            IN  /\ item.start = 1 \/ pw_text[item.start - 1] = "\n"
                /\ closes # {}
                /\ item.last = closed + 3
                /\ item.content = SubSeq(pw_text, opened + 1, closed - 1)

----------------------------------------------------------------------------
(* C27: widget identifiers *)

\* C27: over any sequence of process_widgets calls, each block encountered,
\* of known or unknown type, is assigned widget-N where N is one more than
\* for the previous block, starting at 1; the counter is never decreased or
\* reset, so no two widgets of a build share an identifier.
C27_WidgetIdsSequential ==
    /\ [](/\ pw_ids = [n \in 1..Len(pw_ids) |-> n]
          /\ pw_counter = Len(pw_ids)
          /\ pw_pc = "returned" =>
                /\ Len(pw_items) = Len(WidgetBlocksFrom(1))
                /\ \A k \in 1..Len(pw_items) :
                      pw_items[k].id = Len(pw_ids) - Len(pw_items) + k)
    /\ [][/\ pw_counter' >= pw_counter
          /\ Len(pw_ids') >= Len(pw_ids)
          /\ SubSeq(pw_ids', 1, Len(pw_ids)) = pw_ids]_vars

\* the second call met a block of an unknown type after the first call had
\* met two blocks, and it got the third identifier
C27_Witness ==
    /\ pw_calls = 2
    /\ pw_pc = "returned"
    /\ pw_ids = <<1, 2, 3>>
    /\ Len(pw_items) = 1
    /\ pw_items[1].kind = "unknown"
    /\ pw_items[1].id = 3

----------------------------------------------------------------------------
(* iiif_metadata.py: extract_language_map_value *)

\* the most keys a language map of the model has
MaxLangs == 3

\* extract_language_map_value(language_map, site_language); language_map is
\* [is_dict, items], items being the (key, value) pairs of the dict in order,
\* each [lang, is_list, values]
extract_language_map_value(language_map, site_language) ==
    LET items == language_map.items
        has(lang) == \E i \in 1..Len(items) : items[i].lang = lang
        get(lang) == items[CHOOSE i \in 1..Len(items) : items[i].lang = lang]
        filled(item) == item.is_list /\ Len(item.values) > 0
        first == {i \in 1..Len(items) : filled(items[i])}
    IN  IF ~language_map.is_dict THEN ""
        ELSE IF has(site_language) /\ filled(get(site_language))
        THEN get(site_language).values[1]
        ELSE IF has("en") /\ filled(get("en")) THEN get("en").values[1]
        ELSE IF has("none") /\ filled(get("none")) THEN get("none").values[1]
        ELSE IF first # {}
        THEN items[CHOOSE i \in first : \A j \in first : i <= j].values[1]
        ELSE ""

\* the keys and the values the language maps of the model are made of: for a
\* key, a value that is no array, an empty array, an array whose first string
\* is empty, and an array that starts with a text naming the key
LanguageKeys == {"es", "en", "none", "fr"}
LanguageItems(lang) ==
    { [lang |-> lang, is_list |-> FALSE, values |-> <<>>],
      [lang |-> lang, is_list |-> TRUE, values |-> <<>>],
      [lang |-> lang, is_list |-> TRUE, values |-> <<"", lang>>],
      [lang |-> lang, is_list |-> TRUE, values |-> <<lang, "second">>] }

IdleLanguageMap ==
    /\ lm_map = [is_dict |-> FALSE, items |-> <<>>]
    /\ lm_site = "en"
    /\ lm_result = ""
    /\ lm_pc = "input"

InitLanguageMap ==
    /\ \/ lm_map = [is_dict |-> FALSE, items |-> <<>>]
       \/ \E n \in 0..MaxLangs : \E keys \in [1..n -> LanguageKeys] :
             /\ \A i, j \in 1..n : i # j => keys[i] # keys[j]
             /\ \E items \in [1..n -> UNION {LanguageItems(k) : k \in LanguageKeys}] :
                   /\ \A i \in 1..n : items[i].lang = keys[i]
                   /\ lm_map = [is_dict |-> TRUE, items |-> items]
    /\ lm_site \in {"es", "en", "de"}
    /\ lm_result = ""
    /\ lm_pc = "input"

\* value = extract_language_map_value(language_map, site_language)
ExtractLanguageMapValue ==
    /\ lm_pc = "input"
    /\ lm_result' = extract_language_map_value(lm_map, lm_site)
    /\ lm_pc' = "extracted"
    /\ UNCHANGED <<lm_map, lm_site, exceptLanguageMapVars>>

----------------------------------------------------------------------------
(* C15: the language-map fallback chain *)

\* the candidates in the order they are tried: the site language, 'en',
\* 'none', then the keys in map order
LanguageCandidates ==
    <<lm_site, "en", "none">> \o [i \in 1..Len(lm_map.items) |-> lm_map.items[i].lang]

\* what a candidate yields: the first string of its array, and nothing (the
\* empty string) when the key is absent or its value is no array or empty
Yields(lang) ==
    LET found == {i \in 1..Len(lm_map.items) : lm_map.items[i].lang = lang}
        item == lm_map.items[CHOOSE i \in found : TRUE]
    IN  IF found # {} /\ item.is_list /\ Len(item.values) > 0 THEN item.values[1] ELSE ""

\* C15: the result is what the first candidate that yields a non-empty value
\* yields, and the empty string only when no candidate yields a non-empty
\* value or the input is not a dictionary.
C15_LanguageFallbackChain ==
    lm_pc = "extracted" =>
        LET yielding == {k \in 1..Len(LanguageCandidates) :
                            Yields(LanguageCandidates[k]) # ""}
        IN  IF ~lm_map.is_dict \/ yielding = {} THEN lm_result = ""
            ELSE lm_result =
                    Yields(LanguageCandidates[CHOOSE k \in yielding :
                                                  \A j \in yielding : k <= j])

----------------------------------------------------------------------------
(* iiif_metadata.py: is_legal_boilerplate and extract_credit, on strings *)

\* the most entries a manifest's metadata array has in the model
MaxEntries == 2

\* the i-th character of a string
CharAt(s, i) == SubSeq(s, i, i)

\* str.lower(): the capital letters A-Z are replaced by the small ones
UpperToLower ==
    LET upper == "ABCDEFGHIJKLMNOPQRSTUVWXYZ"
        lower == "abcdefghijklmnopqrstuvwxyz"
    IN  [c \in {CharAt(upper, k) : k \in 1..26} |->
            CharAt(lower, CHOOSE k \in 1..26 : CharAt(upper, k) = c)]
StrLower(s) ==
    LET low(c) == IF c \in DOMAIN UpperToLower THEN UpperToLower[c] ELSE c
        RECURSIVE Between(_, _)
        Between(i, j) == IF i > j THEN ""
                         ELSE IF i = j THEN low(CharAt(s, i))
                         ELSE Between(i, (i + j) \div 2) \o Between((i + j) \div 2 + 1, j)
    IN  Between(1, Len(s))

\* sub in s
StrContains(s, sub) ==
    \E i \in 1..(Len(s) - Len(sub) + 1) : SubSeq(s, i, i + Len(sub) - 1) = sub

\* str.strip() of a string
StrStrip(s) ==
    LET blank(i) == CharAt(s, i) \in {" ", "\n", "\t"}
        RECURSIVE First(_)
        First(i) == IF i <= Len(s) /\ blank(i) THEN First(i + 1) ELSE i
        RECURSIVE Last(_)
        Last(i) == IF i >= 1 /\ blank(i) THEN Last(i - 1) ELSE i
        first == First(1)
    IN  IF first > Len(s) THEN "" ELSE SubSeq(s, first, Last(Len(s)))

\* strip_html_tags(text): re.sub(r'<[^>]+>', '', text), html.unescape (of the
\* entity &amp;), then re.sub(r'\s+', ' ', text).strip()
strip_html_tags(text) ==
    LET RECURSIVE Untagged(_, _)
        Untagged(s, i) ==
            LET closing == {j \in (i + 2)..Len(s) : CharAt(s, j) = ">"}
                next == CHOOSE j \in closing : \A k \in closing : j <= k
            IN  IF i > Len(s) THEN ""
                ELSE IF CharAt(s, i) = "<" /\ i < Len(s) /\ CharAt(s, i + 1) # ">"
                        /\ closing # {}
                THEN Untagged(s, next + 1)
                ELSE CharAt(s, i) \o Untagged(s, i + 1)
        RECURSIVE Unescaped(_, _)
        Unescaped(s, i) ==
            IF i > Len(s) THEN ""
            ELSE IF i + 4 <= Len(s) /\ SubSeq(s, i, i + 4) = "&amp;" THEN "&" \o Unescaped(s, i + 5)
            ELSE CharAt(s, i) \o Unescaped(s, i + 1)
        blank(c) == c \in {" ", "\n", "\t"}
        RECURSIVE Collapsed(_, _)
        Collapsed(s, i) ==
            IF i > Len(s) THEN ""
            ELSE IF blank(CharAt(s, i))
            THEN (IF i > 1 /\ blank(CharAt(s, i - 1)) THEN "" ELSE " ") \o Collapsed(s, i + 1)
            ELSE CharAt(s, i) \o Collapsed(s, i + 1)
    IN  IF text = "" THEN ""
        ELSE StrStrip(Collapsed(Unescaped(Untagged(text, 1), 1), 1))

\* a JSON value of a manifest: a string, a list of strings or a language map
StrValue(text) == [kind |-> "str", text |-> text, items |-> <<>>, map |-> <<>>]
ListValue(items) == [kind |-> "list", text |-> "", items |-> items, map |-> <<>>]
DictValue(map) == [kind |-> "dict", text |-> "", items |-> <<>>, map |-> map]

\* clean_metadata_value(value) of a string or a list of strings
clean_metadata_value(value) ==
    LET cleaned_values == SelectSeq([i \in 1..Len(value.items) |-> StrStrip(value.items[i])],
                                    LAMBDA c : c # "")
        RECURSIVE Joined(_)
        Joined(i) == IF i > Len(cleaned_values) THEN ""
                     ELSE IF i = Len(cleaned_values) THEN cleaned_values[i]
                     ELSE cleaned_values[i] \o "; " \o Joined(i + 1)
    IN  IF value.kind = "str"
        THEN (IF value.text = "" THEN "" ELSE strip_html_tags(StrStrip(value.text)))
        ELSE IF value.items = <<>> THEN ""
        ELSE strip_html_tags(StrStrip(Joined(1)))

\* the value a language map or a plain value stands for: what
\* 'if isinstance(x, dict): x = extract_language_map_value(x, site_language)'
\* leaves in x under version 3.0
Resolved(value, version, site_language) ==
    IF version = "3.0" /\ value.kind = "dict"
    THEN StrValue(extract_language_map_value([is_dict |-> TRUE, items |-> value.map],
                                             site_language))
    ELSE value

\* find_metadata_field(metadata_array, search_terms, version, site_language):
\* the cleaned value of the first entry whose label contains a search term
find_metadata_field(metadata_array, search_terms, version, site_language) ==
    LET matches(entry) ==
            LET label_lower ==
                    StrStrip(StrLower(Resolved(entry.label, version, site_language).text))
            IN  \E k \in 1..Len(search_terms) : StrContains(label_lower, StrLower(search_terms[k]))
        found == {i \in 1..Len(metadata_array) : matches(metadata_array[i])}
        entry == metadata_array[CHOOSE i \in found : \A j \in found : i <= j]
    IN  IF found = {} THEN ""
        ELSE clean_metadata_value(Resolved(entry.value, version, site_language))

\* the list boilerplate_indicators
boilerplate_indicators ==
    <<"for information on use", "rights and permissions", "http://", "https://",
      "licensed under", "license", "see library", "please see", "for more information">>

\* is_legal_boilerplate with the length test at 200 characters and more
is_legal_boilerplate_from_200(text) ==
    LET text_lower == StrLower(text)
        indicator_count ==
            Cardinality({k \in 1..Len(boilerplate_indicators) :
                            StrContains(text_lower, boilerplate_indicators[k])})
    IN  IF text = "" THEN FALSE
        ELSE IF Len(text_lower) >= 4 /\ SubSeq(text_lower, 1, 4) = "http" THEN TRUE
        ELSE indicator_count >= 2 \/ Len(text) >= 200

\* is_legal_boilerplate(text)
is_legal_boilerplate(text) ==
    LET text_lower == StrLower(text)
        indicator_count ==
            Cardinality({k \in 1..Len(boilerplate_indicators) :
                            StrContains(text_lower, boilerplate_indicators[k])})
    IN  IF text = "" THEN FALSE
        ELSE IF Len(text_lower) >= 4 /\ SubSeq(text_lower, 1, 4) = "http" THEN TRUE
        ELSE indicator_count >= 2 \/ Len(text) > 200

\* extract_credit(manifest, version, site_language); manifest is [version,
\* attribution, requiredStatement, provider, metadata], a key that is absent
\* being [present |-> FALSE]. Returns the credit and the cleaned primary
\* attribution (credit after line 306)
extract_credit(manifest, version, site_language) ==
    LET text_of(value) ==
            IF value.kind = "dict"
            THEN extract_language_map_value([is_dict |-> TRUE, items |-> value.map],
                                            site_language)
            ELSE value.text
        required == IF manifest.requiredStatement.present
                    THEN text_of(manifest.requiredStatement.value) ELSE ""
        provided == IF manifest.provider.present
                    THEN text_of(manifest.provider.label) ELSE ""
        credit == IF version = "2.0" THEN manifest.attribution
                  ELSE IF version = "3.0"
                  THEN StrValue(IF required # "" THEN required ELSE provided)
                  ELSE StrValue("")
        cleaned == clean_metadata_value(credit)
        fallback == find_metadata_field(manifest.metadata,
                                        <<"Repository", "Holding Institution", "Institution">>,
                                        version, site_language)
    IN  [primary |-> cleaned,
         credit |-> IF cleaned # "" /\ is_legal_boilerplate(cleaned) /\ fallback # ""
                    THEN fallback ELSE cleaned]

\* the texts is_legal_boilerplate is given in the model: up to MaxTextPieces
\* pieces in a row, one of them a hundred characters long
MaxTextPieces == 3
Filler100 ==
    "xxxxxxxxxxxxxxxxxxxxxxxxxxxxxxxxxxxxxxxxxxxxxxxxxx" \o
    "xxxxxxxxxxxxxxxxxxxxxxxxxxxxxxxxxxxxxxxxxxxxxxxxxx"
TextPieces ==
    {"", "Courtesy of the National Gallery", "http://example.com/rights", "HTTPS://X.ORG",
     "Licensed under CC", " please see ", Filler100, "x"}
RECURSIVE CreditTexts(_)
CreditTexts(n) ==
    IF n = 0 THEN {""} ELSE {p \o t : p \in TextPieces, t \in CreditTexts(n - 1)}

\* the manifests extract_credit is given in the model
LangMap(lang, text) == DictValue(<<[lang |-> lang, is_list |-> TRUE, values |-> <<text>>]>>)
Absent == [present |-> FALSE, value |-> StrValue(""), label |-> StrValue("")]
Present(value) == [present |-> TRUE, value |-> value, label |-> value]
Attributions ==
    {StrValue(""), StrValue("Courtesy of the National Gallery"),
     StrValue("http://example.com/rights"),
     StrValue(" <p>For more information please see the library</p> "),
     ListValue(<<"Licensed under CC", " ">>)}
RequiredStatements ==
    {Absent, Present(StrValue("https://x.org/rights")),
     Present(LangMap("en", "Please see <b>https://x.org</b>")),
     Present(LangMap("es", "Cortesia del Museo")),
     Present(DictValue(<<>>))}
Providers ==
    {Absent, Present(StrValue("http://provider.org")), Present(LangMap("none", "Museo Nacional"))}
PlainEntries ==
    {[label |-> StrValue("Repository"), value |-> StrValue("")],
     [label |-> StrValue("Holding Institution"), value |-> StrValue("British Museum")],
     [label |-> StrValue("Title"), value |-> StrValue("A title")],
     [label |-> StrValue(" institution "), value |-> StrValue(" <i>Museo</i> &amp; Co ")],
     [label |-> StrValue("Repository"), value |-> ListValue(<<" ", "Archivo">>)]}
LanguageMapEntries ==
    {[label |-> LangMap("en", "Institution"), value |-> LangMap("es", "Museo Nacional")]}
Manifests ==
    { [version |-> version, attribution |-> attribution, requiredStatement |-> required,
       provider |-> provider, metadata |-> metadata] :
        version \in {"2.0", "3.0"}, attribution \in Attributions,
        required \in RequiredStatements, provider \in Providers,
        metadata \in UNION {[1..n -> PlainEntries \cup LanguageMapEntries] : n \in 0..MaxEntries} }
\* a version 2.0 manifest has no language maps and no requiredStatement or
\* provider; a version 3.0 manifest has no attribution
WellFormed(manifest) ==
    IF manifest.version = "2.0"
    THEN /\ manifest.requiredStatement = Absent /\ manifest.provider = Absent
         /\ \A i \in 1..Len(manifest.metadata) : manifest.metadata[i] \in PlainEntries
    ELSE manifest.attribution = StrValue("")
NoManifest ==
    [version |-> "2.0", attribution |-> StrValue(""), requiredStatement |-> Absent,
     provider |-> Absent, metadata |-> <<>>]

IdleCredit ==
    /\ cd_text = ""
    /\ cd_manifest = NoManifest
    /\ cd_site = "en"
    /\ cd_boilerplate = FALSE
    /\ cd_primary = ""
    /\ cd_credit = ""
    /\ cd_pc = "input"

InitCredit ==
    /\ \/ cd_text \in CreditTexts(MaxTextPieces) /\ cd_manifest = NoManifest
       \/ cd_text = "" /\ cd_manifest \in {m \in Manifests : WellFormed(m)}
    /\ cd_site \in {"en", "es"}
    /\ cd_boilerplate = FALSE
    /\ cd_primary = ""
    /\ cd_credit = ""
    /\ cd_pc = "input"

\* boilerplate = is_legal_boilerplate(text)
IsLegalBoilerplate ==
    /\ cd_pc = "input"
    /\ cd_boilerplate' = is_legal_boilerplate(cd_text)
    /\ cd_pc' = "classified"
    /\ UNCHANGED <<cd_text, cd_manifest, cd_site, cd_primary, cd_credit, exceptCreditVars>>

\* credit = extract_credit(manifest, version, site_language)
ExtractCredit ==
    /\ cd_pc = "input"
    /\ LET out == extract_credit(cd_manifest, cd_manifest.version, cd_site)
       IN  /\ cd_primary' = out.primary
           /\ cd_credit' = out.credit
    /\ cd_pc' = "extracted"
    /\ UNCHANGED <<cd_text, cd_manifest, cd_site, cd_boilerplate, exceptCreditVars>>

----------------------------------------------------------------------------
(* C16: what is_legal_boilerplate classifies as boilerplate *)

\* the text starts with http, in small or capital letters
IsUrl(text) == Len(text) >= 4 /\ StrLower(SubSeq(text, 1, 4)) = "http"

\* the text contains one of the indicator phrases, in small or capital letters
HasIndicator(text) ==
    LET lowered == StrLower(text)
    IN  \E k \in 1..Len(boilerplate_indicators) : StrContains(lowered, boilerplate_indicators[k])

\* C16: a text that starts with http is boilerplate; a text of more than 200
\* characters is boilerplate whatever it contains; a text of at most 200
\* characters with no indicator phrase that is no URL is not boilerplate; the
\* empty text is not boilerplate.
C16_BoilerplateClassification ==
    cd_pc = "classified" =>
        /\ (Len(cd_text) >= 4 /\ SubSeq(cd_text, 1, 4) = "http") => cd_boilerplate
        /\ Len(cd_text) > 200 => cd_boilerplate
        /\ (Len(cd_text) <= 200 /\ ~HasIndicator(cd_text) /\ ~IsUrl(cd_text)) => ~cd_boilerplate
        /\ cd_text = "" => ~cd_boilerplate

\* a text of 201 characters with no indicator phrase has been classified as boilerplate
C16_Witness ==
    /\ cd_pc = "classified"
    /\ Len(cd_text) = 201
    /\ ~HasIndicator(cd_text)
    /\ ~IsUrl(cd_text)
    /\ cd_boilerplate

----------------------------------------------------------------------------
(* C17: the credit extract_credit returns *)

\* the cleaned values of the Repository / Holding Institution / Institution
\* fields of the manifest's metadata that are not empty, in order
InstitutionValues ==
    LET metadata == cd_manifest.metadata
        label(i) == StrLower(Resolved(metadata[i].label, cd_manifest.version, cd_site).text)
        value(i) == clean_metadata_value(Resolved(metadata[i].value, cd_manifest.version,
                                                  cd_site))
        named(i) == \/ StrContains(label(i), "repository")
                    \/ StrContains(label(i), "holding institution")
                    \/ StrContains(label(i), "institution")
    IN  SelectSeq([i \in 1..Len(metadata) |-> IF named(i) THEN value(i) ELSE ""],
                  LAMBDA v : v # "")

\* C17: when the cleaned primary attribution is boilerplate and the metadata
\* has a non-empty Repository / Holding Institution / Institution field, the
\* value of that field is returned; in every other case the cleaned primary
\* attribution is returned; the result is not blank when the cleaned primary
\* attribution is not blank.
C17_CreditSubstitution ==
    cd_pc = "extracted" =>
        LET values == InstitutionValues
        IN  /\ IF is_legal_boilerplate(cd_primary) /\ values # <<>>
               THEN \E k \in 1..Len(values) : cd_credit = values[k]
               ELSE cd_credit = cd_primary
            /\ cd_primary # "" => cd_credit # ""

----------------------------------------------------------------------------
(* processors/objects.py: process_objects, build after build *)

\* the most rows of objects.csv and the most builds in the model
MaxObjects == 2
MaxBuilds == 2

\* the most rows process_objects goes through, all builds together
MaxProcessed == 2

\* s.endswith(suffix)
EndsWith(s, suffix) ==
    Len(s) >= Len(suffix) /\ SubSeq(s, Len(s) - Len(suffix) + 1, Len(s)) = suffix

\* get_source_url(row): source_url first, then iiif_manifest
get_source_url(row) ==
    IF StrStrip(row.source_url) # "" THEN StrStrip(row.source_url)
    ELSE StrStrip(row.iiif_manifest)

\* urlparse(url).scheme
UrlScheme(url) ==
    LET colons == {i \in 1..Len(url) : CharAt(url, i) = ":"}
    IN  IF colons = {} THEN ""
        ELSE StrLower(SubSeq(url, 1, (CHOOSE i \in colons : \A j \in colons : i <= j) - 1))

\* the object_id the clean-up loop leaves in the dataframe: a file extension
\* is taken off the stripped id, an id without one is left as it is
CleanObjectId(object_id) ==
    LET valid_extensions ==
            <<".jpg", ".jpeg", ".png", ".gif", ".webp", ".tif", ".tiff", ".bmp", ".svg">>
        stripped == StrStrip(object_id)
        found == {k \in 1..Len(valid_extensions) :
                     EndsWith(StrLower(stripped), valid_extensions[k])}
        ext == valid_extensions[CHOOSE k \in found : \A j \in found : k <= j]
    IN  IF found = {} THEN object_id ELSE SubSeq(stripped, 1, Len(stripped) - Len(ext))

\* a line of the warnings list: what it says and the object and the row (idx)
\* it is about
Message(text, object_id, idx) == [text |-> text, object_id |-> object_id, row |-> idx]

\* the warnings of the object_id clean-up loop
SpaceWarnings(df) ==
    LET RECURSIVE From(_)
        From(idx) ==
            IF idx > Len(df) THEN <<>>
            ELSE (IF StrContains(StrStrip(df[idx].object_id), " ")
                  THEN <<Message("contains spaces", df[idx].object_id, idx)>> ELSE <<>>)
                 \o From(idx + 1)
    IN  From(1)

\* previous_objects: the records of the previous _data/objects.json by
\* object_id, a later record replacing an earlier one with the same id
PreviousObject(file, object_id) ==
    LET found == {k \in 1..Len(file.data) : file.data[k].object_id = object_id}
        obj == file.data[CHOOSE k \in found : \A j \in found : j <= k]
    IN  IF ~file.exists \/ found = {}
        THEN [known |-> FALSE, manifest_url |-> "", had_warning |-> FALSE]
        ELSE [known |-> TRUE, manifest_url |-> obj.iiif_manifest,
              had_warning |-> obj.object_warning # ""]

\* HttpWarning without the generic branch: a status that is not listed
\* leaves the warning empty
HttpWarningListedOnly(code) ==
    IF code \in {404, 429, 403, 401, 500, 503, 502}
    THEN [long |-> "iiif_" \o ToString(code), short |-> "short_" \o ToString(code)]
    ELSE [long |-> "", short |-> ""]

\* the object_warning and object_warning_short of an HTTP error status
HttpWarning(code) ==
    IF code \in {404, 429, 403, 401, 500, 503, 502}
    THEN [long |-> "iiif_" \o ToString(code), short |-> "short_" \o ToString(code)]
    ELSE [long |-> "iiif_error_generic", short |-> "short_error_generic"]

\* 'except Exception' missing: the exception leaves process_objects
OtherExceptionUncaught(row, idx) ==
    [raised |-> TRUE, row |-> row, warnings |-> <<>>]

\* the handler 'except Exception as e' of the source URL loop
OtherException(row, idx) ==
    [raised |-> FALSE,
     row |-> [row EXCEPT !.object_warning = "iiif_validation_failed",
                         !.object_warning_short = "short_validation_error"],
     warnings |-> <<Message("Error validating", row.object_id, idx)>>]

\* the body of the source URL loop for one row: what the fetch of the row's
\* manifest brought (fetch) decides the branch
ValidateSourceUrl(row, idx, fetch, file) ==
    LET manifest_url == get_source_url(row)
        object_id == row.object_id
        prev == PreviousObject(file, object_id)
        skip_429 == /\ fetch.kind = "http" /\ fetch.code = 429 /\ prev.known
                    /\ prev.manifest_url = manifest_url /\ ~prev.had_warning
        warned(long, short, text) ==
            [raised |-> FALSE,
             row |-> [row EXCEPT !.object_warning = long,
                                 !.object_warning_short =
                                     IF short = "" THEN row.object_warning_short ELSE short],
             warnings |-> <<Message(text, object_id, idx)>>]
        same == [raised |-> FALSE, row |-> row, warnings |-> <<>>]
    IN  IF manifest_url = "" THEN same
        ELSE IF UrlScheme(manifest_url) \notin {"http", "https"}
        THEN [raised |-> FALSE,
              row |-> [row EXCEPT !.source_url = "", !.iiif_manifest = "",
                                  !.object_warning = "iiif_invalid_url"],
              warnings |-> <<Message("not a valid URL", object_id, idx)>>]
        ELSE IF fetch.kind = "not_json" THEN warned("iiif_not_manifest", "", "does not return JSON")
        ELSE IF fetch.kind = "invalid_json" THEN warned("iiif_not_manifest", "", "is not valid JSON")
        ELSE IF fetch.kind = "malformed" THEN warned("iiif_malformed", "", "missing required fields")
        ELSE IF fetch.kind = "ok"
        THEN [raised |-> FALSE,
              row |-> [row EXCEPT !.title = IF StrStrip(row.title) = ""
                                            THEN "Manifest title" ELSE row.title],
              warnings |-> <<>>]
        ELSE IF fetch.kind = "extraction_raises" THEN same
        ELSE IF fetch.kind = "http"
        THEN (IF skip_429 THEN same
              ELSE warned(HttpWarning(fetch.code).long, HttpWarning(fetch.code).short,
                          "returned HTTP"))
        ELSE IF fetch.kind = "url_error"
        THEN [raised |-> FALSE, row |-> row,
              warnings |-> <<Message("slow to respond", object_id, idx)>>]
        ELSE OtherException(row, idx)

\* the loop over the objects without a source URL going through the objects
\* with a source URL as well
ValidateLocalImageEveryRow(row, idx, local) ==
    LET warned(long, short) ==
            [row |-> [row EXCEPT !.object_warning = long, !.object_warning_short = short],
             warnings |-> <<Message("no IIIF manifest or local image file", row.object_id, idx)>>]
    IN  IF local = "image" THEN [row |-> row, warnings |-> <<>>]
        ELSE IF local = "one similar"
        THEN warned("image_similar_single", "short_filename_mismatch")
        ELSE IF local = "several similar"
        THEN warned("image_similar_multiple", "short_ambiguous_match")
        ELSE warned("image_missing", "short_missing_source")

\* the body of the loop over the objects without a source URL: local is what
\* components/images holds for the object_id
ValidateLocalImage(row, idx, local) ==
    LET warned(long, short) ==
            [row |-> [row EXCEPT !.object_warning = long, !.object_warning_short = short],
             warnings |-> <<Message("no IIIF manifest or local image file", row.object_id, idx)>>]
    IN  IF get_source_url(row) # "" \/ local = "image" THEN [row |-> row, warnings |-> <<>>]
        ELSE IF local = "one similar"
        THEN warned("image_similar_single", "short_filename_mismatch")
        ELSE IF local = "several similar"
        THEN warned("image_similar_multiple", "short_ambiguous_match")
        ELSE warned("image_missing", "short_missing_source")

\* _select_featured_objects drawing the random sample even when objects are
\* explicitly featured
select_featured_objects_sampling_always(df, config) ==
    LET unmarked == [i \in 1..Len(df) |-> [df[i] EXCEPT !.is_featured_sample = FALSE]]
        marked(chosen) ==
            [i \in 1..Len(df) |-> [df[i] EXCEPT !.is_featured_sample = (i \in chosen)]]
        valid_objects == {i \in 1..Len(df) : StrStrip(df[i].object_warning) = ""}
        sample_size == IF config.featured_count < Cardinality(valid_objects)
                       THEN config.featured_count ELSE Cardinality(valid_objects)
    IN  IF ~config.show_sample \/ valid_objects = {} THEN {unmarked}
        ELSE {marked(chosen) : chosen \in {c \in SUBSET valid_objects :
                                              Cardinality(c) = sample_size}}

\* _select_featured_objects(df): the dataframes it can return, one for each
\* sample random.sample can draw
select_featured_objects(df, config) ==
    LET unmarked == [i \in 1..Len(df) |-> [df[i] EXCEPT !.is_featured_sample = FALSE]]
        marked(chosen) ==
            [i \in 1..Len(df) |-> [df[i] EXCEPT !.is_featured_sample = (i \in chosen)]]
        featured_mask ==
            {i \in 1..Len(df) :
                StrStrip(StrLower(df[i].featured)) \in {"yes", "true", "si", "1"}}
        valid_objects == {i \in 1..Len(df) : StrStrip(df[i].object_warning) = ""}
        sample_size == IF config.featured_count < Cardinality(valid_objects)
                       THEN config.featured_count ELSE Cardinality(valid_objects)
    IN  IF ~config.show_sample THEN {unmarked}
        ELSE IF featured_mask # {} THEN {marked(featured_mask)}
        ELSE IF valid_objects = {} THEN {unmarked}
        ELSE {marked(chosen) : chosen \in {c \in SUBSET valid_objects :
                                              Cardinality(c) = sample_size}}

\* the dataframe as the clean-up of process_objects leaves it, before the
\* validation passes: the rows with an object_id, the id cleaned, the warning
\* columns added empty
CleanedFrame(csv) ==
    LET filled == SelectSeq(csv, LAMBDA row : StrStrip(row.object_id) # "")
    IN  [idx \in 1..Len(filled) |->
            [object_id |-> CleanObjectId(filled[idx].object_id),
             source_url |-> filled[idx].source_url,
             iiif_manifest |-> filled[idx].iiif_manifest,
             featured |-> filled[idx].featured,
             title |-> filled[idx].title,
             object_warning |-> "",
             object_warning_short |-> "",
             is_featured_sample |-> FALSE]]

\* process_objects(df, christmas_tree=False) for an objects.csv without the
\* columns example, thumbnail and object_warning: the results it can return.
\* file is _data/objects.json as the previous build left it, inputs[idx] is
\* what the fetch of row idx brings and what components/images holds for it
process_objects(csv, file, config, inputs) ==
    LET df == CleanedFrame(csv)
        fetched == [idx \in 1..Len(df) |->
                       ValidateSourceUrl(df[idx], idx, inputs[idx].fetch, file)]
        local == [idx \in 1..Len(df) |->
                     ValidateLocalImage(fetched[idx].row, idx, inputs[idx].local)]
        RECURSIVE Warnings(_, _)
        Warnings(results, idx) ==
            IF idx > Len(results) THEN <<>>
            ELSE results[idx].warnings \o Warnings(results, idx + 1)
        warnings == SpaceWarnings(df) \o Warnings(fetched, 1) \o Warnings(local, 1)
    IN  IF \E idx \in 1..Len(df) : fetched[idx].raised
        THEN {[raised |-> TRUE, df |-> <<>>, warnings |-> <<>>]}
        ELSE {[raised |-> FALSE, df |-> selected, warnings |-> warnings] :
                 selected \in select_featured_objects(
                                  [idx \in 1..Len(df) |-> local[idx].row], config)}

\* what a fetch can bring, and what components/images can hold
NoFetch == [kind |-> "none", code |-> 0]
HttpError(code) == [kind |-> "http", code |-> code]
FetchOutcomes ==
    {[kind |-> k, code |-> 0] :
        k \in {"ok", "extraction_raises", "not_json", "invalid_json", "malformed",
               "url_error", "exception"}}
    \cup {HttpError(429), HttpError(418)}
LocalImages == {"image", "one similar", "several similar", "none"}

\* the row is fetched: it has a source URL with the scheme http or https
IsFetched(row) ==
    get_source_url(row) # "" /\ UrlScheme(get_source_url(row)) \in {"http", "https"}

\* the inputs of a build: a fetch outcome for each row that is fetched, a
\* content of components/images for each row that is left without a URL
RowInputs(row) ==
    IF IsFetched(row) THEN {[fetch |-> f, local |-> "none"] : f \in FetchOutcomes}
    ELSE {[fetch |-> NoFetch, local |-> l] : l \in LocalImages}
BuildInputs(csv) ==
    LET filled == SelectSeq(csv, LAMBDA row : StrStrip(row.object_id) # "")
        RECURSIVE Upto(_)
        Upto(idx) == IF idx = 0 THEN {<<>>}
                     ELSE {Append(inputs, input) : inputs \in Upto(idx - 1),
                                                   input \in RowInputs(filled[idx])}
    IN  Upto(Len(filled))

\* the rows and the settings of the model
ManifestUrl == "https://a.org/m"
MovedManifestUrl == "https://b.org/m"
CsvRow(object_id, source_url, iiif_manifest, featured) ==
    [object_id |-> object_id, source_url |-> source_url, iiif_manifest |-> iiif_manifest,
     featured |-> featured, title |-> ""]
ObjectRows ==
    {CsvRow("a", ManifestUrl, ManifestUrl, ""),
     CsvRow("c", ManifestUrl, "", ""),
     CsvRow("b.jpg", "", "", "yes"),
     CsvRow("b", "ftp://a.org/m", "ftp://a.org/m", ""),
     CsvRow(" ", ManifestUrl, ManifestUrl, "")}
ObjectConfigs ==
    {[show_sample |-> FALSE, featured_count |-> 4],
     [show_sample |-> TRUE, featured_count |-> 1]}
NoFile == [exists |-> FALSE, data |-> <<>>]

IdleObjects ==
    /\ ob_csv = <<>>
    /\ ob_config = [show_sample |-> FALSE, featured_count |-> 4]
    /\ ob_file = NoFile
    /\ ob_inputs = <<>>
    /\ ob_raised = FALSE
    /\ ob_df = <<>>
    /\ ob_warnings = <<>>
    /\ ob_builds = 0
    /\ ob_processed = 0
    /\ ob_pc = "idle"

InitObjects ==
    /\ ob_csv \in UNION {[1..n -> ObjectRows] : n \in 1..MaxObjects}
    /\ ob_config \in ObjectConfigs
    /\ ob_file = NoFile
    /\ ob_inputs = <<>>
    /\ ob_raised = FALSE
    /\ ob_df = <<>>
    /\ ob_warnings = <<>>
    /\ ob_builds = 0
    /\ ob_processed = 0
    /\ ob_pc = "idle"

\* df = process_func(df) in csv_to_json, process_func being process_objects
ProcessObjects ==
    /\ ob_pc = "idle"
    /\ ob_builds < MaxBuilds
    /\ LET rows == Cardinality({idx \in 1..Len(ob_csv) :
                                   StrStrip(ob_csv[idx].object_id) # ""})
       IN  /\ ob_processed + rows <= MaxProcessed
           /\ ob_processed' = ob_processed + rows
    /\ \E inputs \in BuildInputs(ob_csv) :
          \E result \in process_objects(ob_csv, ob_file, ob_config, inputs) :
             /\ ob_inputs' = inputs
             /\ ob_raised' = result.raised
             /\ ob_df' = result.df
             /\ ob_warnings' = result.warnings
    /\ ob_pc' = "processed"
    /\ UNCHANGED <<ob_csv, ob_config, ob_file, ob_builds, exceptObjectsVars>>

\* data = df.to_dict('records') and json.dump(data, f) in csv_to_json: the
\* build ends, _data/objects.json holds the records of the dataframe
WriteObjectsJson ==
    /\ ob_pc = "processed"
    /\ ~ob_raised
    /\ ob_file' = [exists |-> TRUE, data |-> ob_df]
    /\ ob_builds' = ob_builds + 1
    /\ ob_inputs' = <<>>
    /\ ob_df' = <<>>
    /\ ob_warnings' = <<>>
    /\ ob_pc' = "idle"
    /\ UNCHANGED <<ob_csv, ob_config, ob_raised, ob_processed, exceptObjectsVars>>

\* between two builds the manifest of an object moves: the URL columns of a
\* row of objects.csv that held the URL hold the new one
EditObjectsCsv ==
    /\ ob_pc = "idle"
    /\ ob_builds >= 1
    /\ ob_builds < MaxBuilds
    /\ \E idx \in 1..Len(ob_csv) :
          /\ get_source_url(ob_csv[idx]) = ManifestUrl
          /\ ob_csv' = [ob_csv EXCEPT
                ![idx].source_url = MovedManifestUrl,
                ![idx].iiif_manifest = IF ob_csv[idx].iiif_manifest = "" THEN ""
                                       ELSE MovedManifestUrl]
    /\ UNCHANGED <<ob_config, ob_file, ob_inputs, ob_raised, ob_df, ob_warnings, ob_builds,
                   ob_processed, ob_pc, exceptObjectsVars>>

----------------------------------------------------------------------------
(* C18, C19, C20: the fetches of process_objects *)

\* the rows process_objects keeps: those with a non-blank object_id
FilledRows == SelectSeq(ob_csv, LAMBDA row : StrStrip(row.object_id) # "")

\* process_objects has returned from a build
Processed == ob_pc = "processed" /\ ~ob_raised

\* the fetch of row idx returned HTTP 429
RateLimited(idx) == ob_inputs[idx].fetch = HttpError(429)

\* the previous build's output has a record with the object id and the
\* manifest URL of row idx and an empty warning
UnchangedSincePreviousBuild(idx) ==
    /\ ob_file.exists
    /\ \E k \in 1..Len(ob_file.data) :
          /\ ob_file.data[k].object_id = ob_df[idx].object_id
          /\ get_source_url(ob_file.data[k]) = get_source_url(ob_df[idx])
          /\ ob_file.data[k].object_warning = ""

\* the warnings have a line about the HTTP status of row idx
HttpLine(idx) ==
    \E k \in 1..Len(ob_warnings) :
        ob_warnings[k].row = idx /\ ob_warnings[k].text = "returned HTTP"

\* C18: when the fetch of an object's manifest returns HTTP 429, the object's
\* warning stays empty and nothing is added to the warnings if and only if the
\* previous build's output has a record with the same object id, the same
\* manifest URL and an empty warning; in every other case the 429 warning is
\* set on the record.
C18_RateLimitSkip ==
    Processed =>
        \A idx \in 1..Len(ob_df) :
            RateLimited(idx) =>
                /\ (ob_df[idx].object_warning = "" /\ ~HttpLine(idx))
                       <=> UnchangedSincePreviousBuild(idx)
                /\ ~UnchangedSincePreviousBuild(idx) =>
                       ob_df[idx].object_warning = "iiif_429"

\* a record without the flag of the homepage sample
WithoutSample(record) == [record EXCEPT !.is_featured_sample = FALSE]

\* the results process_objects can return when the fetch of row j brings
\* input instead of what it brought
WithOtherFetch(j, input) ==
    process_objects(ob_csv, ob_file, ob_config, [ob_inputs EXCEPT ![j] = input])

\* process_objects returns, and each row with a non-blank object_id has its
\* record in the dataframe, in the order of the rows
ReturnsEveryRow ==
    /\ ob_pc = "processed" => ~ob_raised
    /\ Processed =>
          /\ Len(ob_df) = Len(FilledRows)
          /\ \A idx \in 1..Len(ob_df) :
                ob_df[idx].object_id = CleanObjectId(FilledRows[idx].object_id)

FetchFailed(idx) ==
    ob_inputs[idx].fetch.kind \in {"http", "url_error", "not_json", "invalid_json", "malformed"}

\* the 429 of row idx falls under the skip of an unchanged manifest
SkippedRateLimit(idx) == RateLimited(idx) /\ UnchangedSincePreviousBuild(idx)

\* C20 as stated: every object whose manifest cannot be fetched or validated
\* (an HTTP error status, a network failure or timeout, a non-JSON response, a
\* body without the manifest structure) ends process_objects with a non-empty
\* object_warning, but for a 429 that falls under the unchanged-manifest skip.
C20_EveryFailedFetchWarned ==
    Processed =>
        \A idx \in 1..Len(ob_df) :
            (FetchFailed(idx) /\ ~SkippedRateLimit(idx)) => ob_df[idx].object_warning # ""

\* the warnings have the line of a network failure about row idx
SlowLine(idx) ==
    \E k \in 1..Len(ob_warnings) :
        ob_warnings[k].row = idx /\ ob_warnings[k].text = "slow to respond"

\* C20: every object whose fetch ends with an HTTP error status, a non-JSON
\* response, a body without the manifest structure or an exception of no
\* expected kind ends process_objects with a non-empty object_warning, but
\* for a 429 that falls under the unchanged-manifest skip; a network failure
\* or timeout (URLError) only adds a line to the warnings and leaves the
\* object_warning of the record empty.
C20_FailedFetchWarned ==
    Processed =>
        \A idx \in 1..Len(ob_df) :
            /\ (/\ FetchFailed(idx) \/ ob_inputs[idx].fetch.kind = "exception"
                /\ ob_inputs[idx].fetch.kind # "url_error"
                /\ ~SkippedRateLimit(idx)) => ob_df[idx].object_warning # ""
            /\ ob_inputs[idx].fetch.kind = "url_error" =>
                   ob_df[idx].object_warning = "" /\ SlowLine(idx)

\* a build of two objects has returned: the fetch of the first ended with a
\* status that has no message of its own and the record has the generic
\* warning, the fetch of the second ended with a network failure and the
\* record has no warning
C20_Witness ==
    /\ Processed
    /\ Len(ob_df) = 2
    /\ ob_inputs[1].fetch = HttpError(418)
    /\ ob_df[1].object_warning = "iiif_error_generic"
    /\ ob_inputs[2].fetch.kind = "url_error"
    /\ ob_df[2].object_warning = ""
    /\ SlowLine(2)

----------------------------------------------------------------------------
(* C24: a second run of the same build *)

\* what process_objects can return on the table, the previous objects.json,
\* the configuration and the fetch responses of the build that has just run
Reruns == process_objects(ob_csv, ob_file, ob_config, ob_inputs)

\* the record has featured set to one of the values _select_featured_objects
\* takes for yes
ExplicitlyFeatured(record) ==
    StrStrip(StrLower(record.featured)) \in {"yes", "true", "si", "1"}

\* nothing is left to random.sample: the homepage sample is off, or some
\* object is explicitly featured, or there are no more objects without a
\* warning than featured_count
SampleIsFixed ==
    \/ ~ob_config.show_sample
    \/ \E idx \in 1..Len(ob_df) : ExplicitlyFeatured(ob_df[idx])
    \/ Cardinality({idx \in 1..Len(ob_df) : StrStrip(ob_df[idx].object_warning) = ""})
          <= ob_config.featured_count

----------------------------------------------------------------------------
(* C29: the warning slot from pass to pass *)

\* object_warning of row idx when the source URL loop has ended
WarningAfterSourceUrlPass(idx) ==
    ValidateSourceUrl(CleanedFrame(ob_csv)[idx], idx, ob_inputs[idx].fetch,
                      ob_file).row.object_warning

----------------------------------------------------------------------------
(* processors/objects.py: _find_similar_image_filenames and the local image *)
(* loop of process_objects, for one object without a source URL            *)

\* the most files components/images holds in the model
MaxFiles == 3

\* re.sub(r'[-_\s]', '', s.lower())
Normalized(s) ==
    LET low == StrLower(s)
        RECURSIVE From(_)
        From(i) == IF i > Len(low) THEN ""
                   ELSE (IF CharAt(low, i) \in {"-", "_", " ", "\t", "\n"} THEN ""
                         ELSE CharAt(low, i)) \o From(i + 1)
    IN  From(1)

\* the position of the dot that starts Path(name).suffix, 0 when the name has
\* no suffix (no dot, or only a leading one)
SuffixDot(name) ==
    LET dots == {i \in 2..(Len(name) - 1) : CharAt(name, i) = "."}
    IN  IF dots = {} THEN 0 ELSE CHOOSE i \in dots : \A j \in dots : j <= i

\* Path(name).suffix and Path(name).stem
PathSuffix(name) ==
    IF SuffixDot(name) = 0 THEN "" ELSE SubSeq(name, SuffixDot(name), Len(name))
PathStem(name) ==
    IF SuffixDot(name) = 0 THEN name ELSE SubSeq(name, 1, SuffixDot(name) - 1)

\* the sum of the sizes of SequenceMatcher(None, a, b).get_matching_blocks():
\* find_longest_match takes the longest block a[i:i+k] == b[j:j+k] of the
\* window, the one that starts first in a and then first in b, and the
\* windows to its left and to its right are matched in the same way (the
\* strings are shorter than 200 characters: no character is junk)
MatchingSize(a, b) ==
    LET RECURSIVE Matches(_, _, _, _)
        Matches(alo, ahi, blo, bhi) ==
            LET blocks == {m \in (alo..(ahi - 1)) \X (blo..(bhi - 1)) \X (1..(ahi - alo)) :
                              /\ m[1] + m[3] <= ahi
                              /\ m[2] + m[3] <= bhi
                              /\ SubSeq(a, m[1] + 1, m[1] + m[3])
                                    = SubSeq(b, m[2] + 1, m[2] + m[3])}
                best == CHOOSE m \in blocks : \A n \in blocks :
                            \/ n[3] < m[3]
                            \/ n[3] = m[3] /\ m[1] < n[1]
                            \/ n[3] = m[3] /\ m[1] = n[1] /\ m[2] <= n[2]
            IN  IF blocks = {} THEN 0
                ELSE best[3] + Matches(alo, best[1], blo, best[2])
                             + Matches(best[1] + best[3], ahi, best[2] + best[3], bhi)
    IN  Matches(0, Len(a), 0, Len(b))

\* the threshold 0.85 of _find_similar_image_filenames, as 85 / 100
SimilarityNum == 85
SimilarityDen == 100

\* SequenceMatcher(None, a, b).ratio() > 0.85; ratio() is 2.0 * matches /
\* (len(a) + len(b)), and 1.0 for two empty strings
SimilarityAbove(a, b) ==
    IF Len(a) + Len(b) = 0 THEN TRUE
    ELSE 2 * MatchingSize(a, b) * SimilarityDen > SimilarityNum * (Len(a) + Len(b))

\* the suffixes of an image file
ImageExtensions == {".jpg", ".jpeg", ".png", ".gif", ".webp", ".tif", ".tiff"}

\* _find_similar_image_filenames(object_id, images_dir): the names returned
\* (the list has them in the order of iterdir(), which is arbitrary);
\* images_dir is [exists, files, case_sensitive]
find_similar_image_filenames(object_id, images_dir) ==
    IF ~images_dir.exists THEN {}
    ELSE {name \in images_dir.files :
             /\ StrLower(PathSuffix(name)) \in ImageExtensions
             /\ StrLower(PathStem(name)) # StrLower(object_id)
             /\ SimilarityAbove(Normalized(object_id), Normalized(PathStem(name)))}

\* Path('components/images/' + name).exists(): the name is the name of a file
\* of the directory, up to letter case on a file system that ignores case
PathExists(images_dir, name) ==
    /\ images_dir.exists
    /\ \E file \in images_dir.files :
          IF images_dir.case_sensitive THEN file = name
          ELSE StrLower(file) = StrLower(name)

\* what the local image loop finds for an object without a source URL: an
\* image named after it, one or several similar file names, or nothing
LocalImage(object_id, images_dir) ==
    LET similar_files == find_similar_image_filenames(object_id, images_dir)
    IN  IF \E ext \in ImageExtensions : PathExists(images_dir, object_id \o ext)
        THEN "image"
        ELSE IF Cardinality(similar_files) = 1 THEN "one similar"
        ELSE IF similar_files # {} THEN "several similar"
        ELSE "none"

\* the object ids and the file names of the model
ImageObjectIds == {"my-map", "MyMap", "map1"}
ImageFileNames ==
    {"my_map.jpg", "mymap.png", "My-Map.jpg", "my map.JPG", "my-maps.jpg", "map2.jpg",
     "my-map.txt"}
ImageDirs ==
    {[exists |-> FALSE, files |-> {}, case_sensitive |-> TRUE]}
    \cup {[exists |-> TRUE, files |-> files, case_sensitive |-> cs] :
             files \in {f \in SUBSET ImageFileNames : Cardinality(f) <= MaxFiles},
             cs \in BOOLEAN}

IdleImages ==
    /\ im_object_id = ""
    /\ im_dir = [exists |-> FALSE, files |-> {}, case_sensitive |-> TRUE]
    /\ im_similar = {}
    /\ im_warning = ""
    /\ im_pc = "input"

InitImages ==
    /\ im_object_id \in ImageObjectIds
    /\ im_dir \in ImageDirs
    /\ im_similar = {}
    /\ im_warning = ""
    /\ im_pc = "input"

\* the body of the local image loop of process_objects for the object
ValidateLocalImageFile ==
    /\ im_pc = "input"
    /\ im_similar' = find_similar_image_filenames(im_object_id, im_dir)
    /\ im_warning' =
          ValidateLocalImage(CleanedFrame(<<CsvRow(im_object_id, "", "", "")>>)[1], 1,
                             LocalImage(im_object_id, im_dir)).row.object_warning
    /\ im_pc' = "validated"
    /\ UNCHANGED <<im_object_id, im_dir, exceptImagesVars>>

----------------------------------------------------------------------------
(* C26: near matches of a missing image *)

\* the file is an image file, and its base name is not the object id
ImageFile(name) == StrLower(PathSuffix(name)) \in ImageExtensions

\* the base name of the file differs from the object id only by letter case,
\* or only by hyphens, underscores and spaces
NearMatch(name) ==
    LET stem == PathStem(name)
        unseparated(s) ==
            LET RECURSIVE From(_)
                From(i) == IF i > Len(s) THEN ""
                           ELSE (IF CharAt(s, i) \in {"-", "_", " "} THEN ""
                                 ELSE CharAt(s, i)) \o From(i + 1)
            IN  From(1)
    IN  /\ ImageFile(name)
        /\ stem # im_object_id
        /\ \/ StrLower(stem) = StrLower(im_object_id)
           \/ unseparated(stem) = unseparated(im_object_id)

\* no image file is named exactly after the object id
NoExactImage ==
    \A name \in im_dir.files :
        ~(PathStem(name) = im_object_id /\ PathSuffix(name) \in ImageExtensions)

\* C26: for an object with no source URL and no local image file named
\* exactly after its id, every image file in the media directory whose base
\* name differs from the object id only by letter case, or only by hyphens,
\* underscores and spaces, is returned by _find_similar_image_filenames, so
\* the record gets a 'did you mean' warning naming it; the generic 'missing'
\* warning is used only when no candidate file has a similarity above 0.85.
C26_NearMatchSuggested ==
    (im_pc = "validated" /\ NoExactImage) =>
        /\ \A name \in im_dir.files :
              NearMatch(name) =>
                  /\ name \in im_similar
                  /\ im_warning \in {"image_similar_single", "image_similar_multiple"}
        /\ im_warning = "image_missing" =>
              \A name \in im_dir.files :
                  ImageFile(name) =>
                      ~SimilarityAbove(Normalized(im_object_id),
                                       Normalized(PathStem(name)))

----------------------------------------------------------------------------
(* processors/stories.py: process_story *)

\* the most rows a story table of the model has
MaxSteps == 2

\* get_lang_string('errors.object_warnings.content_missing_label')
content_missing_label == <<"Content Missing">>

\* resolve_path_case_insensitive('components/texts', 'stories/' + name) on a
\* case-sensitive file system: the name as written, then the lowercased name
\* (the lowercased whole path is the same file); <<>> is None
resolve_path_case_insensitive(texts, name) ==
    IF name \in DOMAIN texts THEN <<name>>
    ELSE IF Lower(name) \in DOMAIN texts THEN <<Lower(name)>>
    ELSE <<>>

\* what read_markdown_file and process_inline_content return for None
NoContent == [found |-> FALSE]

\* the template directory of a build: every template renders
StoryTemplates == CHOOSE s \in TemplateStores : \A t \in DOMAIN s : s[t] = "renders"

\* the dict returned once process_widgets has run on the body: images pass
\* through (no text of the model has image syntax), then markdown.markdown
ContentData(title, widgets) ==
    [found |-> TRUE, title |-> title, content |-> Markdown(widgets.text),
     warnings |-> widgets.warnings, counter |-> widgets.counter]

\* read_markdown_file(file_path, widget_warnings) with _widget_counter at
\* `counter`; a file of the store is [title, body], the title of its
\* frontmatter ('' without frontmatter) and the text after it
read_markdown_file(texts, name, counter) ==
    LET full_path == resolve_path_case_insensitive(texts, name)
    IN  IF full_path = <<>> THEN NoContent
        ELSE ContentData(texts[full_path[1]].title,
                         process_widgets(Strip(texts[full_path[1]].body),
                                         StoryTemplates, counter))

\* process_inline_content(text, widget_warnings) with _widget_counter at
\* `counter` (no cell of the model starts with a frontmatter block)
process_inline_content(text, counter) ==
    IF Strip(text) = <<>> THEN NoContent
    ELSE ContentData(<<>>, process_widgets(Strip(text), StoryTemplates, counter))

\* cell_value.endswith('.md')
EndsWithMd(cell_value) == cell_value # <<>> /\ cell_value[Len(cell_value)] = ".md"

\* objects_data.keys()
ObjectKeys(objects_list) == {objects_list[i].object_id : i \in 1..Len(objects_list)}

\* objects_data[key]: the last record of the list with that id
ObjectOf(objects_list, key) ==
    LET hits == {i \in 1..Len(objects_list) : objects_list[i].object_id = key}
    IN  objects_list[CHOOSE i \in hits : \A j \in hits : j <= i]

\* objects_lower_map[lowered]: the last key, in the order the keys were first
\* inserted, that lowercases to `lowered`
LowerMapKey(objects_list, lowered) ==
    LET firsts == {i \in 1..Len(objects_list) :
                      \A j \in 1..(i - 1) :
                          objects_list[j].object_id # objects_list[i].object_id}
        hits == {i \in firsts : Lower(objects_list[i].object_id) = lowered}
    IN  objects_list[CHOOSE i \in hits : \A j \in hits : j <= i].object_id

\* one pass of the loop "Validate object references" over a row
ValidateObjectReference(row, objects_list, images) ==
    LET object_id == Strip(row.object)
        exact == object_id \in ObjectKeys(objects_list)
        folded == \E k \in ObjectKeys(objects_list) : Lower(k) = Lower(object_id)
        actual_object_id == IF exact THEN object_id
                            ELSE LowerMapKey(objects_list, Lower(object_id))
        iiif_manifest == Strip(ObjectOf(objects_list, actual_object_id).iiif_manifest)
        has_local_image == actual_object_id \in images
        corrected == IF exact THEN row ELSE [row EXCEPT !.object = actual_object_id]
    IN  IF object_id = <<>> THEN row
        ELSE IF ~exact /\ ~folded
        THEN [row EXCEPT !.viewer_warning = <<"object_not_found">> \o object_id]
        ELSE IF iiif_manifest = <<>> /\ ~has_local_image
        THEN [corrected EXCEPT !.viewer_warning = <<"object_no_source">> \o actual_object_id]
        ELSE corrected

\* the warnings process_glossary_links appends when called with step_num
GlossaryWarningsOf(warnings, step_num) ==
    [k \in 1..Len(warnings) |-> [warnings[k] EXCEPT !.step = step_num]]

\* the row and the lists after the content of a cell has been processed
WithContent(acc, i, content_data, linked) ==
    [df |-> [acc.df EXCEPT ![i].layer1_title = content_data.title,
                           ![i].layer1_text = linked.text],
     glossary_warnings |-> acc.glossary_warnings
                              \o GlossaryWarningsOf(linked.warnings, acc.df[i].step),
     widget_warnings |-> acc.widget_warnings \o content_data.warnings,
     counter |-> content_data.counter]

\* content_data is what the cell of row i gives: link its glossary terms
Linked(acc, i, content_data, terms) ==
    WithContent(acc, i, content_data, process_glossary_links(content_data.content, terms))

\* "If not a file reference or file not found, treat as inline content"
OrInline(acc, i, content_data, cell_value, terms) ==
    IF content_data.found THEN Linked(acc, i, content_data, terms)
    ELSE Linked(acc, i, process_inline_content(cell_value, acc.counter), terms)

RECURSIVE ContentRows(_, _, _, _)
\* the loop over the rows of the column layer1_content, from row i on
ContentRows(acc, i, texts, terms) ==
    IF i > Len(acc.df) THEN acc
    ELSE LET cell_value == Strip(acc.df[i].layer1_content)
         IN  IF cell_value = <<>> THEN ContentRows(acc, i + 1, texts, terms)
             ELSE ContentRows(
                      OrInline(acc, i,
                               IF EndsWithMd(cell_value)
                               THEN read_markdown_file(texts, cell_value, acc.counter)
                               ELSE NoContent,
                               cell_value, terms),
                      i + 1, texts, terms)

\* re.search(r'<strong>(.*?)</strong>', text): <<group(1)>>, or <<>> for None
StrongMatch(text) ==
    LET closes(p) == {q \in (p + 1)..Len(text) :
                         /\ text[q] = "</strong>"
                         /\ \A k \in (p + 1)..(q - 1) : text[k] # "\n"}
        opens == {p \in 1..Len(text) : text[p] = "<strong>" /\ closes(p) # {}}
        p0 == CHOOSE p \in opens : \A r \in opens : p <= r
        q0 == CHOOSE q \in closes(p0) : \A r \in closes(p0) : q <= r
    IN  IF opens = {} THEN <<>> ELSE <<SubSeq(text, p0 + 1, q0 - 1)>>

\* the entries the loop "Collect all warnings for intro display" appends for
\* a row
RowWarnings(row) ==
    (IF Strip(row.viewer_warning) # <<>>
     THEN <<[step |-> row.step, type |-> "viewer",
             message |-> Strip(row.viewer_warning)]>>
     ELSE <<>>)
    \o (IF row.layer1_title = content_missing_label
        THEN <<[step |-> row.step, type |-> "panel",
                message |-> IF StrongMatch(row.layer1_text) # <<>>
                            THEN StrongMatch(row.layer1_text)[1]
                            ELSE <<"layer_file_missing", "1">>]>>
        ELSE <<>>)

\* fake_warnings of the Christmas Tree Mode
fake_warnings ==
    << [step |-> <<"1">>, type |-> "viewer", message |-> <<"missing_object_id">>],
       [step |-> <<"2">>, type |-> "panel",
        message |-> <<"content_file_missing", "missing-file", ".md">>],
       [step |-> <<"3">>, type |-> "glossary", term_id |-> <<"nonexistent-term">>,
        message |-> <<"glossary_term_not_found", "nonexistent-term">>] >>

\* the table and df.attrs['viewer_warnings'] once every column is processed
StoryResult(acc, christmas_tree) ==
    [df |-> [i \in 1..Len(acc.df) |->
                [step |-> acc.df[i].step, object |-> acc.df[i].object,
                 viewer_warning |-> acc.df[i].viewer_warning,
                 layer1_title |-> acc.df[i].layer1_title,
                 layer1_text |-> acc.df[i].layer1_text]],
     viewer_warnings |->
         Flatten([i \in 1..Len(acc.df) |-> RowWarnings(acc.df[i])])
             \o acc.glossary_warnings \o acc.widget_warnings
             \o (IF christmas_tree THEN fake_warnings ELSE <<>>)]

\* process_story(df, christmas_tree) in a build whose _data/objects.json is
\* objects_list (<<>> when absent or empty), whose components/images holds an
\* image for the ids of `images`, whose components/texts/stories holds
\* `texts` and whose glossary is `terms`; a row is [step, object,
\* layer1_content]
process_story(rows, christmas_tree, objects_list, images, texts, terms) ==
    LET kept == SelectSeq(rows, LAMBDA r : \/ Strip(r.step) # <<>>
                                           \/ Strip(r.object) # <<>>
                                           \/ Strip(r.layer1_content) # <<>>)
        df == [i \in 1..Len(kept) |->
                  [step |-> kept[i].step, object |-> kept[i].object,
                   viewer_warning |-> <<>>, layer1_content |-> kept[i].layer1_content,
                   layer1_title |-> <<>>, layer1_text |-> <<>>]]
        validated == IF objects_list = <<>> THEN df
                     ELSE [i \in 1..Len(df) |->
                              ValidateObjectReference(df[i], objects_list, images)]
    IN  StoryResult(ContentRows([df |-> validated, glossary_warnings |-> <<>>,
                                 widget_warnings |-> <<>>, counter |-> 0],
                                1, texts, terms),
                    christmas_tree)

\* the object cells of the model: none, a key of the index, a key in another
\* case, a key after a blank, and an id the index does not have
StoryObjectCells ==
    { <<>>, <<"mymap">>, <<"^", "mymap">>, <<" ", "mymap">>, <<"nomap">> }

\* the content cells of the model: none, a file name, a file name in another
\* case, a text with a glossary link and a text with a block of unknown type
StoryContentCells ==
    { <<>>, <<"intro", ".md">>, <<"^", "intro", ".md">>,
      <<"[", "[", "b", "]", "]">>,
      <<":", ":", ":", "gallery", "\n", "w", "\n", ":", ":", ":">> }

\* the rows a table of the model can have at position i: a blank row, or a
\* row of step i
StoryRows(i) ==
    { [step |-> <<>>, object |-> <<>>, layer1_content |-> <<>>] }
    \cup { [step |-> <<ToString(i)>>, object |-> o, layer1_content |-> c] :
              o \in StoryObjectCells, c \in StoryContentCells }

\* the lists _data/objects.json can hold
StoryObjectLists ==
    { <<>>,
      <<[object_id |-> <<"mymap">>, iiif_manifest |-> <<"m">>]>>,
      <<[object_id |-> <<"mymap">>, iiif_manifest |-> <<>>]>>,
      <<[object_id |-> <<"^", "mymap">>, iiif_manifest |-> <<"m">>],
        [object_id |-> <<"mymap">>, iiif_manifest |-> <<" ">>]>> }

\* the directories components/texts/stories can be: empty, or holding
\* intro.md with a plain text, with a block of unknown type, or with the
\* title and the body of a missing-content notice
StoryTexts ==
    LET store(title, body) ==
            [n \in {<<"intro", ".md">>} |-> [title |-> title, body |-> body]]
    IN  { <<>>,
          store(<<>>, <<"w">>),
          store(<<"T">>, <<":", ":", ":", "gallery", "\n", "w", "\n", ":", ":", ":", "\n">>),
          store(content_missing_label, <<"<strong>", "f", "</strong>">>),
          store(content_missing_label, <<"w">>) }

IdleStory ==
    /\ st_rows = <<>>
    /\ st_christmas_tree = FALSE
    /\ st_objects = <<>>
    /\ st_images = {}
    /\ st_texts = <<>>
    /\ st_terms = NoTerms
    /\ st_df = <<>>
    /\ st_viewer_warnings = <<>>
    /\ st_pc = "input"

InitStory ==
    /\ \E n \in 1..MaxSteps : \E rows \in [1..n -> UNION {StoryRows(i) : i \in 1..n}] :
          /\ \A i \in 1..n : rows[i] \in StoryRows(i)
          /\ st_rows = rows
    /\ st_christmas_tree \in BOOLEAN
    /\ st_objects \in StoryObjectLists
    /\ st_images \in {{}, {<<"mymap">>}}
    /\ st_texts \in StoryTexts
    /\ st_terms \in {NoTerms, OneTerm}
    /\ st_df = <<>>
    /\ st_viewer_warnings = <<>>
    /\ st_pc = "input"

\* df = process_story(df, christmas_tree)
ProcessStory ==
    /\ st_pc = "input"
    /\ \E res \in {process_story(st_rows, st_christmas_tree, st_objects, st_images,
                                 st_texts, st_terms)} :
          /\ st_df' = res.df
          /\ st_viewer_warnings' = res.viewer_warnings
    /\ st_pc' = "processed"
    /\ UNCHANGED <<st_rows, st_christmas_tree, st_objects, st_images, st_texts, st_terms,
                   exceptStoryVars>>

----------------------------------------------------------------------------
(* C21, C22, C23: the warnings of a story *)

\* the row of the table read that has the step of a processed row
RowRead(step) == CHOOSE k \in 1..Len(st_rows) : st_rows[k].step = step

\* the message of a row whose object was not found
NotFoundWarning(row) ==
    row.viewer_warning # <<>> /\ Head(row.viewer_warning) = "object_not_found"

\* C21: with a non-empty objects index, for every row with a non-empty
\* object value: a value that is a key of the index is left unchanged;
\* otherwise a value equal to a key but for case is replaced by that key and
\* no not-found warning is set; otherwise the row gets a viewer warning. So
\* every non-empty object value of the processed table is a key of the index
\* or its row carries a viewer warning.
C21_ObjectReferenceResolved ==
    (st_pc = "processed" /\ st_objects # <<>>) =>
        \A i \in 1..Len(st_df) :
            LET read == st_rows[RowRead(st_df[i].step)].object
                keys == ObjectKeys(st_objects)
            IN  Strip(read) # <<>> =>
                  /\ IF read \in keys THEN st_df[i].object = read
                     ELSE IF \E k \in keys : Lower(k) = Lower(read)
                     THEN /\ st_df[i].object \in keys
                          /\ Lower(st_df[i].object) = Lower(read)
                          /\ ~NotFoundWarning(st_df[i])
                     ELSE st_df[i].viewer_warning # <<>>
                  /\ \/ st_df[i].object \in keys
                     \/ st_df[i].viewer_warning # <<>>

\* C22: every entry of viewer_warnings carries the step it applies to, a
\* type and a message.
C22_WarningsCarryStepTypeMessage ==
    st_pc = "processed" =>
        \A k \in 1..Len(st_viewer_warnings) :
            {"step", "type", "message"} \subseteq DOMAIN st_viewer_warnings[k]

\* C23: when a content cell names a markdown file (a value ending in .md)
\* that cannot be resolved under components/texts, viewer_warnings has a
\* warning of type 'panel' for that step.
C23_MissingPanelFileWarned ==
    st_pc = "processed" =>
        \A i \in 1..Len(st_rows) :
            (/\ EndsWithMd(Strip(st_rows[i].layer1_content))
             /\ resolve_path_case_insensitive(st_texts,
                                              Strip(st_rows[i].layer1_content)) = <<>>)
            => \E k \in 1..Len(st_viewer_warnings) :
                  /\ st_viewer_warnings[k].type = "panel"
                  /\ st_viewer_warnings[k].step = st_rows[i].step

----------------------------------------------------------------------------
(* demo.py: merge_demo_content *)

\* the most steps a demo story of the model has
MaxDemoSteps == 1

\* a file of _data holding `data`
FileOf(data) == [exists |-> TRUE, data |-> data]

\* "Merge projects": project.json after the block; a project file is a list
\* of entries [has_stories, stories], and user_project[0] of an empty list
\* raises, which the block catches
MergeProjects(project, bundle) ==
    LET demo_stories ==
            [k \in 1..Len(bundle.project) |->
                [number |-> bundle.project[k].order,
                 story_id |-> bundle.project[k].story_id,
                 title |-> bundle.project[k].title, demo |-> TRUE]]
    IN  IF ~project.exists \/ bundle.project = <<>> \/ project.data = <<>> THEN project
        ELSE FileOf([project.data EXCEPT
                        ![1] = [has_stories |-> TRUE,
                                stories |-> IF @.has_stories
                                            THEN demo_stories \o @.stories
                                            ELSE demo_stories]])

\* demo_obj of a bundle object
DemoObject(obj_id, obj_data) ==
    [kind |-> "object", object_id |-> obj_id, title |-> obj_data.title,
     source_url |-> obj_data.source_url, iiif_manifest |-> obj_data.source_url,
     demo |-> TRUE]

\* "Merge objects": objects.json after the block; bundle.objects is the list
\* of the (id, data) pairs of the dict, in order
MergeObjects(objects, bundle) ==
    LET user_objects == objects.data
        existing_ids == {user_objects[i].object_id :
                            i \in {j \in 1..Len(user_objects) :
                                      user_objects[j].kind # "metadata"}}
        added == SelectSeq(bundle.objects, LAMBDA o : o.object_id \notin existing_ids)
    IN  IF ~objects.exists \/ bundle.objects = <<>> THEN objects
        ELSE FileOf(user_objects
                      \o [k \in 1..Len(added) |-> DemoObject(added[k].object_id, added[k])])

\* glossary_terms built from bundle['glossary']
DemoGlossaryTerms(bundle) ==
    [t \in {bundle.glossary[k].term_id : k \in 1..Len(bundle.glossary)} |->
        (CHOOSE g \in {bundle.glossary[k] : k \in 1..Len(bundle.glossary)} :
            g.term_id = t).term]

\* the text of a layer: widgets (no content of the model has a block, so the
\* counter stays), images, markdown, then glossary links
DemoLayerText(content, terms) ==
    IF content = <<>> THEN content
    ELSE process_glossary_links(
             Markdown(process_widgets(content, StoryTemplates, 0).text), terms).text

\* step_data of a step of a demo story; a step has the layers of `layers`,
\* each [button, title, content] with title <<>> for no 'title' key and
\* <<t>> for the title t
DemoStep(step, terms) ==
    [step |-> step.step, object |-> step.object, demo |-> TRUE,
     layers |-> [l \in DOMAIN step.layers |->
                    [button |-> step.layers[l].button,
                     title |-> IF step.layers[l].title = <<>>
                               THEN step.layers[l].button
                               ELSE step.layers[l].title[1],
                     text |-> DemoLayerText(step.layers[l].content, terms),
                     demo |-> TRUE]]]

RECURSIVE CreateDemoStories(_, _, _, _)
\* "Create demo story files": the story files of _data after the loop, from
\* the k-th story of the bundle on; a story whose data is no dict raises,
\* which the loop body catches before anything is written
CreateDemoStories(files, bundle, k, terms) ==
    IF k > Len(bundle.stories) THEN files
    ELSE LET story == bundle.stories[k]
         IN  CreateDemoStories(
                 IF ~story.is_dict THEN files
                 ELSE DictSet(files, story.story_id,
                              [i \in 1..Len(story.steps) |-> DemoStep(story.steps[i], terms)]),
                 bundle, k + 1, terms)

\* "Write demo glossary to _data/demo-glossary.json"
DemoGlossaryFile(glossary, bundle) ==
    IF bundle.glossary = <<>> THEN glossary
    ELSE FileOf([k \in 1..Len(bundle.glossary) |->
                    [term_id |-> bundle.glossary[k].term_id,
                     title |-> bundle.glossary[k].term,
                     content |-> bundle.glossary[k].content, demo |-> TRUE]])

\* merge_demo_content(bundle) on the directory _data, which is [project,
\* objects, files, glossary]: project.json, objects.json, the story files by
\* story id, and demo-glossary.json
merge_demo_content(data, bundle) ==
    [project |-> MergeProjects(data.project, bundle),
     objects |-> MergeObjects(data.objects, bundle),
     files |-> CreateDemoStories(data.files, bundle, 1, DemoGlossaryTerms(bundle)),
     glossary |-> DemoGlossaryFile(data.glossary, bundle)]

\* an object written from the author's table
UserObject(object_id, title) ==
    [kind |-> "object", object_id |-> object_id, title |-> title,
     source_url |-> "", iiif_manifest |-> "", demo |-> FALSE]

\* the first element of a file with viewer warnings
MetadataEntry ==
    [kind |-> "metadata", object_id |-> "", title |-> "", source_url |-> "",
     iiif_manifest |-> "", demo |-> FALSE]

\* a step written from the author's table
UserStep(step) == [step |-> step, object |-> "mymap", demo |-> FALSE, layers |-> <<>>]

\* the directories _data of the model after the tables are converted
UserData ==
    { [project |-> p, objects |-> o, files |-> f, glossary |-> NoFile] :
        p \in { NoFile, FileOf(<<>>),
                FileOf(<<[has_stories |-> FALSE, stories |-> <<>>]>>),
                FileOf(<<[has_stories |-> TRUE,
                          stories |-> <<[number |-> "1", story_id |-> "story1",
                                         title |-> "mine", demo |-> FALSE]>>]>>) },
        o \in { NoFile, FileOf(<<>>), FileOf(<<UserObject("mymap", "mine")>>),
                FileOf(<<MetadataEntry, UserObject("mymap", "mine"),
                         UserObject("other", "mine")>>) },
        f \in { <<>>, [s \in {"story1"} |-> <<UserStep("1")>>],
                [s \in {"story1", "story2"} |-> <<UserStep("1"), UserStep("2")>>] } }

\* the steps a demo story of the model is made of
DemoSteps ==
    { [step |-> "1", object |-> "demo-object", layers |-> <<>>],
      [step |-> "1", object |-> "mymap",
       layers |-> [l \in {"layer1"} |->
                      [button |-> "more", title |-> <<>>, content |-> <<"w">>]]],
      [step |-> "1", object |-> "demo-object",
       layers |-> [l \in {"layer1", "layer2"} |->
                      [button |-> "more", title |-> <<"about">>,
                       content |-> IF l = "layer1" THEN <<"[", "[", "a", "]", "]">>
                                   ELSE <<>>]]] }

\* the stories of a bundle under an id: data that is no dict, or steps
DemoStories(story_id) ==
    { [story_id |-> story_id, is_dict |-> FALSE, steps |-> <<>>] }
    \cup { [story_id |-> story_id, is_dict |-> TRUE, steps |-> steps] :
              steps \in UNION {[1..n -> DemoSteps] : n \in 0..MaxDemoSteps} }

\* the bundles of the model: a demo object and a demo story may have the id
\* of an object and of a story of the author
DemoBundles ==
    { [project |-> p, objects |-> o, stories |-> s, glossary |-> g] :
        p \in { <<>>, <<[order |-> "1", story_id |-> "story1", title |-> "demo"]>> },
        o \in { <<>>,
                <<[object_id |-> "mymap", title |-> "demo", source_url |-> "u"]>>,
                <<[object_id |-> "demo-object", title |-> "demo", source_url |-> "u"]>>,
                <<[object_id |-> "demo-object", title |-> "demo", source_url |-> "u"],
                  [object_id |-> "mymap", title |-> "demo", source_url |-> ""]>> },
        s \in { <<>> } \cup { <<a>> : a \in DemoStories("story1") \cup DemoStories("demo-story") }
              \cup { <<a, b>> : a \in DemoStories("demo-story"), b \in DemoStories("story1") },
        g \in { <<>>, <<[term_id |-> <<"a">>, term |-> <<"T">>, content |-> "c"]>> } }

IdleDemo ==
    /\ dm_user = [project |-> NoFile, objects |-> NoFile, files |-> <<>>,
                  glossary |-> NoFile]
    /\ dm_bundle = [project |-> <<>>, objects |-> <<>>, stories |-> <<>>,
                    glossary |-> <<>>]
    /\ dm_data = dm_user
    /\ dm_pc = "converted"

InitDemo ==
    /\ dm_user \in UserData
    /\ dm_bundle \in DemoBundles
    /\ dm_data = dm_user
    /\ dm_pc = "converted"

\* merge_demo_content(demo_bundle) at the end of main
MergeDemoContent ==
    /\ dm_pc = "converted"
    /\ dm_data' = merge_demo_content(dm_data, dm_bundle)
    /\ dm_pc' = "merged"
    /\ UNCHANGED <<dm_user, dm_bundle, exceptDemoVars>>

----------------------------------------------------------------------------
(* C30: the demo overlay and the records of the author *)

\* C30: after merge_demo_content every object of the author keeps its own
\* values, even when a demo object has the same object id, and every story
\* file written from the author's table is left unchanged, even when a demo
\* story has the same story id.
C30_DemoNeverOverwrites ==
    dm_pc = "merged" =>
        /\ dm_user.objects.exists =>
              /\ Len(dm_data.objects.data) >= Len(dm_user.objects.data)
              /\ SubSeq(dm_data.objects.data, 1, Len(dm_user.objects.data))
                    = dm_user.objects.data
              /\ \A j \in (Len(dm_user.objects.data) + 1)..Len(dm_data.objects.data) :
                    \A i \in 1..Len(dm_user.objects.data) :
                        dm_user.objects.data[i].kind = "object" =>
                            dm_data.objects.data[j].object_id
                                # dm_user.objects.data[i].object_id
        /\ \A story_id \in DOMAIN dm_user.files :
              dm_data.files[story_id] = dm_user.files[story_id]

----------------------------------------------------------------------------
(* Specifications: one per operation, the state of the others left idle *)

MergeInit ==
    InitMerge /\ IdleHeader /\ IdleNorm /\ IdleCsv /\ IdleGlossary /\ IdleWidget /\
        IdleCarousel /\ IdleProcessWidgets /\ IdleLanguageMap /\ IdleCredit /\
        IdleObjects /\ IdleImages /\ IdleStory /\ IdleDemo
SpecMerge == MergeInit /\ [][ApplyMetadataFallback]_vars

HeaderInit ==
    InitHeader /\ IdleMerge /\ IdleNorm /\ IdleCsv /\ IdleGlossary /\ IdleWidget /\
        IdleCarousel /\ IdleProcessWidgets /\ IdleLanguageMap /\ IdleCredit /\
        IdleObjects /\ IdleImages /\ IdleStory /\ IdleDemo
SpecHeader == HeaderInit /\ [][IsHeaderRow]_vars

NormInit ==
    InitNorm /\ IdleMerge /\ IdleHeader /\ IdleCsv /\ IdleGlossary /\ IdleWidget /\
        IdleCarousel /\ IdleProcessWidgets /\ IdleLanguageMap /\ IdleCredit /\
        IdleObjects /\ IdleImages /\ IdleStory /\ IdleDemo
SpecNorm == NormInit /\ [][NormalizeColumnNames]_vars

CsvInit ==
    InitCsv /\ IdleMerge /\ IdleHeader /\ IdleNorm /\ IdleGlossary /\ IdleWidget /\
        IdleCarousel /\ IdleProcessWidgets /\ IdleLanguageMap /\ IdleCredit /\
        IdleObjects /\ IdleImages /\ IdleStory /\ IdleDemo
SpecCsv == CsvInit /\ [][CsvToJson]_vars

GlossaryInit ==
    InitGlossary /\ IdleMerge /\ IdleHeader /\ IdleNorm /\ IdleCsv /\ IdleWidget /\
        IdleCarousel /\ IdleProcessWidgets /\ IdleLanguageMap /\ IdleCredit /\
        IdleObjects /\ IdleImages /\ IdleStory /\ IdleDemo
SpecGlossary == GlossaryInit /\ [][ProcessGlossaryLinks]_vars

WidgetInit ==
    InitWidget /\ IdleMerge /\ IdleHeader /\ IdleNorm /\ IdleCsv /\ IdleGlossary /\
        IdleCarousel /\ IdleProcessWidgets /\ IdleLanguageMap /\ IdleCredit /\
        IdleObjects /\ IdleImages /\ IdleStory /\ IdleDemo
WidgetNext == ParseTabsWidget \/ ParseAccordionWidget
SpecWidget == WidgetInit /\ [][WidgetNext]_vars

CarouselInit ==
    InitCarousel /\ IdleMerge /\ IdleHeader /\ IdleNorm /\ IdleCsv /\ IdleGlossary /\
        IdleWidget /\ IdleProcessWidgets /\ IdleLanguageMap /\ IdleCredit /\
        IdleObjects /\ IdleImages /\ IdleStory /\ IdleDemo
SpecCarousel == CarouselInit /\ [][ParseCarouselWidget]_vars

ProcessWidgetsInit ==
    InitProcessWidgets /\ IdleMerge /\ IdleHeader /\ IdleNorm /\ IdleCsv /\
        IdleGlossary /\ IdleWidget /\ IdleCarousel /\ IdleLanguageMap /\ IdleCredit /\
        IdleObjects /\ IdleImages /\ IdleStory /\ IdleDemo
ProcessWidgetsNext == ProcessWidgets \/ NextMarkdownFile
SpecProcessWidgets == ProcessWidgetsInit /\ [][ProcessWidgetsNext]_vars

LanguageMapInit ==
    InitLanguageMap /\ IdleMerge /\ IdleHeader /\ IdleNorm /\ IdleCsv /\
        IdleGlossary /\ IdleWidget /\ IdleCarousel /\ IdleProcessWidgets /\
        IdleCredit /\ IdleObjects /\ IdleImages /\ IdleStory /\ IdleDemo
SpecLanguageMap == LanguageMapInit /\ [][ExtractLanguageMapValue]_vars

CreditInit ==
    InitCredit /\ IdleMerge /\ IdleHeader /\ IdleNorm /\ IdleCsv /\ IdleGlossary /\
        IdleWidget /\ IdleCarousel /\ IdleProcessWidgets /\ IdleLanguageMap /\
        IdleObjects /\ IdleImages /\ IdleStory /\ IdleDemo
CreditNext == IsLegalBoilerplate \/ ExtractCredit
SpecCredit == CreditInit /\ [][CreditNext]_vars

ObjectsInit ==
    InitObjects /\ IdleMerge /\ IdleHeader /\ IdleNorm /\ IdleCsv /\ IdleGlossary /\
        IdleWidget /\ IdleCarousel /\ IdleProcessWidgets /\ IdleLanguageMap /\
        IdleCredit /\ IdleImages /\ IdleStory /\ IdleDemo
ObjectsNext == ProcessObjects \/ WriteObjectsJson \/ EditObjectsCsv
SpecObjects == ObjectsInit /\ [][ObjectsNext]_vars

ImagesInit ==
    InitImages /\ IdleMerge /\ IdleHeader /\ IdleNorm /\ IdleCsv /\ IdleGlossary /\
        IdleWidget /\ IdleCarousel /\ IdleProcessWidgets /\ IdleLanguageMap /\
        IdleCredit /\ IdleObjects /\ IdleStory /\ IdleDemo
SpecImages == ImagesInit /\ [][ValidateLocalImageFile]_vars

StoryInit ==
    InitStory /\ IdleMerge /\ IdleHeader /\ IdleNorm /\ IdleCsv /\ IdleGlossary /\
        IdleWidget /\ IdleCarousel /\ IdleProcessWidgets /\ IdleLanguageMap /\
        IdleCredit /\ IdleObjects /\ IdleImages /\ IdleDemo
SpecStory == StoryInit /\ [][ProcessStory]_vars

DemoInit ==
    InitDemo /\ IdleMerge /\ IdleHeader /\ IdleNorm /\ IdleCsv /\ IdleGlossary /\
        IdleWidget /\ IdleCarousel /\ IdleProcessWidgets /\ IdleLanguageMap /\
        IdleCredit /\ IdleObjects /\ IdleImages /\ IdleStory
SpecDemo == DemoInit /\ [][MergeDemoContent]_vars

====
